---- MODULE Spec2Model ----
(***************************************************************************)
(* Model of the WebGL multi-pass filter engine of webgl-filter-piper:      *)
(* the shader registry, WebGLProcessor (program cache, textures, render    *)
(* targets, renderFilter, destroy) and processImageWithPipeline.           *)
(*                                                                         *)
(* A run is the img.onload handler of processImageWithPipeline.  It is     *)
(* split into one step per call it makes on the processor so that the      *)
(* order of device operations inside a run is visible.  The device is a    *)
(* ledger (gl): the objects alive, the delete calls made, and the log of   *)
(* the device operations issued.                                           *)
(***************************************************************************)
EXTENDS Integers, Sequences, FiniteSets, TLC

(***************************************************************************)
(* Bounds of the model.                                                    *)
(***************************************************************************)
MaxPipeline == 2          \* longest pipeline handed to a run
MaxEffects == 2           \* runs of a surface's effect while it is mounted
MaxPasses == 4            \* longest pipeline of the runs of many passes
MaxFilters == 2           \* longest pipeline built in the application
MaxImages == 2            \* most files in one upload

Undefined == "undefined"   \* a property read that finds nothing
NoObject == <<>>           \* a null object reference
NoError == ""

(***************************************************************************)
(* Strings whose characters matter (filter ids, registry keys) are tuples  *)
(* of one-character strings.                                               *)
(***************************************************************************)
S_passthrough == <<"p","a","s","s","t","h","r","o","u","g","h">>
S_debug == <<"d","e","b","u","g">>
S_brightness == <<"b","r","i","g","h","t","n","e","s","s">>
S_contrast == <<"c","o","n","t","r","a","s","t">>
S_saturation == <<"s","a","t","u","r","a","t","i","o","n">>
S_blur == <<"b","l","u","r">>
S_sharpen == <<"s","h","a","r","p","e","n">>
S_edge == <<"e","d","g","e">>
S_noise == <<"n","o","i","s","e">>
S_bilateral == <<"b","i","l","a","t","e","r","a","l">>
S_sepia == <<"s","e","p","i","a">>
S_constructor == <<"c","o","n","s","t","r","u","c","t","o","r">>
S_toString == <<"t","o","S","t","r","i","n","g">>
S_valueOf == <<"v","a","l","u","e","O","f">>

(***************************************************************************)
(* const shaders = { passthrough: ..., debug: ..., ... }: the own keys of  *)
(* the object, each with its fragment source.  A fragment source is named  *)
(* by the key it is registered under; the ten texts are pairwise distinct. *)
(***************************************************************************)
shaders ==
    { <<S_passthrough, "passthrough">>, <<S_debug, "debug">>,
      <<S_brightness, "brightness">>, <<S_contrast, "contrast">>,
      <<S_saturation, "saturation">>, <<S_blur, "blur">>,
      <<S_sharpen, "sharpen">>, <<S_edge, "edge">>,
      <<S_noise, "noise">>, <<S_bilateral, "bilateral">> }

ShaderKeys == { e[1] : e \in shaders }
FragmentSources == { e[2] : e \in shaders }

(***************************************************************************)
(* shaders is a plain object literal, so a property read that misses the   *)
(* own keys continues on Object.prototype.  These are (some of) the keys   *)
(* found there; the value read is a function, not a fragment source.       *)
(***************************************************************************)
ObjectPrototype ==
    { <<S_constructor, "fn:constructor">>, <<S_toString, "fn:toString">>,
      <<S_valueOf, "fn:valueOf">> }

InheritedValues == { e[2] : e \in ObjectPrototype }

(***************************************************************************)
(* The uniforms each fragment source declares (getUniformLocation is       *)
(* non-null exactly for these names).  A uniform name "u_X" is <<"u_",X>>. *)
(***************************************************************************)
U(x) == <<"u_", x>>

DeclaredUniforms(src) ==
    CASE src \in {"passthrough", "debug"} -> {U("image")}
      [] src \in {"brightness", "contrast", "saturation"} ->
            {U("image"), U("value")}
      [] src = "blur" -> {U("image"), U("radius"), U("resolution")}
      [] src \in {"sharpen", "noise"} ->
            {U("image"), U("strength"), U("resolution")}
      [] src = "edge" -> {U("image"), U("threshold"), U("resolution")}
      [] src = "bilateral" ->
            {U("image"), U("spatial"), U("color"), U("resolution")}
      [] OTHER -> {}

(***************************************************************************)
(* filterId.split('-')[0]: the characters before the first '-'.            *)
(***************************************************************************)
\* A mutant of the split: the id is looked up whole.
SplitFirst_Whole(s) == s

SplitFirst(s) ==
    IF \E i \in 1..Len(s) : s[i] = "-"
    THEN SubSeq(s, 1, (CHOOSE i \in 1..Len(s) :
                          s[i] = "-" /\ \A j \in 1..(i - 1) : s[j] # "-") - 1)
    ELSE s

\* shaders[baseId]: own key, else inherited from Object.prototype, else
\* undefined.
PropertyRead(key) ==
    IF key \in ShaderKeys
    THEN (CHOOSE e \in shaders : e[1] = key)[2]
    ELSE IF key \in { e[1] : e \in ObjectPrototype }
         THEN (CHOOSE e \in ObjectPrototype : e[1] = key)[2]
         ELSE Undefined

\* A mutant of the lookup: an unregistered kind has no fallback.
getShaderForFilter_NoFallback(filterId) ==
    PropertyRead(SplitFirst(filterId))

getShaderForFilter(filterId) ==
    LET baseId == SplitFirst(filterId)
        found == PropertyRead(baseId)
    IN  IF found # Undefined THEN found ELSE "passthrough"

(***************************************************************************)
(* The filter templates of the application (their ids) and the id that     *)
(* addFilterToPipeline gives a new filter: `${filterId}-${Date.now()}`.    *)
(***************************************************************************)
availableFilters ==
    { S_debug, S_blur, S_sharpen, S_edge, S_brightness, S_contrast,
      S_saturation, S_noise, S_bilateral }

\* The decimal digits of a natural number, as a template literal prints it.
RECURSIVE DecimalString(_)
DecimalString(n) ==
    IF n < 10 THEN << <<"0","1","2","3","4","5","6","7","8","9">>[n + 1] >>
    ELSE DecimalString(n \div 10) \o DecimalString(n % 10)

NewFilterId(filterId, now) == filterId \o <<"-">> \o DecimalString(now)

(***************************************************************************)
(* The caller's inputs.  A Filter is [id, parameters, enabled]; parameters *)
(* is the sequence of Object.entries(filter.parameters).                   *)
(***************************************************************************)
FilterPool ==
    { [id |-> NewFilterId(S_brightness, 1), parameters |-> << <<"value", 10>> >>],
      [id |-> NewFilterId(S_blur, 2),
       parameters |-> << <<"radius", 2>>, <<"resolution", 3>> >>],
      [id |-> S_sepia \o <<"-", "3">>, parameters |-> << <<"amount", 1>> >>],
      [id |-> S_constructor \o <<"-", "4">>, parameters |-> <<>>] }

Filters ==
    { [id |-> f.id, parameters |-> f.parameters, enabled |-> e] :
        f \in FilterPool, e \in BOOLEAN }

Pipelines == UNION { [1..n -> Filters] : n \in 0..MaxPipeline }

\* What performance.now() advances by between two readings: nothing (below
\* the timer's resolution) or a tick.
Ticks == {0, 1}

Images == {"imgA"}
Sizes == { <<4, 4>>, <<100, 100>> }

VARIABLES
    pc,              \* position of the current call of processImageWithPipeline
    pipeline, image, width, height,   \* arguments of the current call
    gl,              \* the device context of the current call's canvas
    processor,       \* the WebGLProcessor of the current call
    inputTexture, fbo1, fbo2, enabledFilters,
    index, currentTexture, currentFBO, nextFBO,   \* the forEach loop
    totalGpuTime,    \* let totalGpuTime
    elapsed,         \* performance.now() - totalStartTime
    thrown,          \* the error on its way to the catch block
    resolved,        \* the values the call's promise was resolved with
    answers,         \* what the device and the loader answered in this call
    earlier,         \* what the calls that ended before left behind
    surface,         \* a mounted ReglSurface: its canvas and its effects
    app              \* the state of GPUImageProcessingUI

vars == <<pc, pipeline, image, width, height, gl, processor,
          inputTexture, fbo1, fbo2, enabledFilters, index, currentTexture,
          currentFBO, nextFBO, totalGpuTime, elapsed, thrown, resolved,
          answers, earlier, surface, app>>

(***************************************************************************)
(* The device.  An object is <<kind, n>>, n counting the objects the       *)
(* context has created.  Every entry of the log is <<operation, operands>>.*)
(***************************************************************************)
\* The value of a singleton set.  { e(x) : x \in {v} } names v once, so
\* that a step's result is computed once however often it is read.
Val(S) == CHOOSE x \in S : TRUE

NewContext ==
    [ made |-> 0, last |-> NoObject, live |-> {}, released |-> <<>>,
      log |-> <<>>,
      content |-> {},          \* <<texture, pixels>> for every texture
      attachment |-> {},       \* <<framebuffer, texture>>
      uniforms |-> {},         \* <<program, name, value>> last set
      linked |-> {},           \* <<program, fragment source>>
      framebuffer |-> NoObject, texture |-> NoObject, program |-> NoObject,
      canvas |-> <<>> ]

Emit(g, op, operands) == [g EXCEPT !.log = Append(@, <<op, operands>>)]

\* An operation on the object created last.
EmitLast(g, op, operands) ==
    Val({ Emit(x, op, <<x.last>> \o operands) : x \in {g} })

\* gl.create*: the new object is g.last afterwards.
Create(g, kind) ==
    Val({ [x EXCEPT !.made = @ + 1,
                    !.last = <<kind, x.made + 1>>,
                    !.live = @ \cup {<<kind, x.made + 1>>},
                    !.log = Append(@, <<"create", <<kind, x.made + 1>> >>)]
          : x \in {g} })

\* A mutant of Delete: the delete call is dropped.
Delete_Dropped(g, obj) == g

\* gl.delete*
Delete(g, obj) ==
    Val({ [g EXCEPT !.live = @ \ {o},
                    !.released = Append(@, o),
                    !.log = Append(@, <<"delete", o>>)] : o \in {obj} })

RECURSIVE DeleteFrom(_, _, _)
DeleteFrom(g, objs, i) ==
    IF i > Len(objs) THEN g ELSE DeleteFrom(Delete(g, objs[i]), objs, i + 1)

\* objs.forEach(o => gl.delete*(o))
DeleteAll(g, objs) == Val({ DeleteFrom(g, os, 1) : os \in {objs} })

PixelsOf(g, tex) ==
    Val({ IF \E c \in x.content : c[1] = tex
          THEN (CHOOSE c \in x.content : c[1] = tex)[2]
          ELSE <<>> : x \in {g} })

SetPixels(g, tex, px) ==
    [g EXCEPT !.content = {c \in @ : c[1] # tex} \cup {<<tex, px>>}]

\* The surface a draw or clear writes: the canvas when no framebuffer is
\* bound, else the texture attached to the bound framebuffer.
WritePixels(g, px) ==
    Val({ IF x.framebuffer = NoObject
          THEN [x EXCEPT !.canvas = px]
          ELSE SetPixels(x,
                 (CHOOSE a \in x.attachment : a[1] = x.framebuffer)[2], px)
          : x \in {g} })

\* What a fragment source computes from the pixels it samples.
Shade(src, unis, px) ==
    IF src = "passthrough" THEN px
    ELSE Append(px, [stage |-> "shade", src |-> src, uniforms |-> unis])

\* gl.uniform*(location, ...) on the current program
SetUniform(g, op, name, val) ==
    Val({ Emit([x EXCEPT !.uniforms =
                   {u \in @ : ~(u[1] = x.program /\ u[2] = name)}
                       \cup {<<x.program, name, val>>}],
               op, <<x.program, name, val>>) : x \in {g} })

\* gl.drawElements: the current program runs on the texture bound to unit 0.
DrawElements(g) ==
    Val({ Emit(WritePixels(x,
                 Shade((CHOOSE l \in x.linked : l[1] = x.program)[2],
                       { <<u[2], u[3]>> :
                           u \in {y \in x.uniforms : y[1] = x.program} },
                       PixelsOf(x, x.texture))),
               "drawElements", <<x.program, x.texture, x.framebuffer>>)
          : x \in {g} })

(***************************************************************************)
(* class WebGLProcessor.  A method takes the device and the processor and  *)
(* returns both, with its value and the error it throws (NoError if none). *)
(* Its last parameter is what the device answers.                          *)
(***************************************************************************)
NoProcessor ==
    [ programs |-> <<>>, framebuffers |-> <<>>, textures |-> <<>>,
      positionBuffer |-> NoObject, indexBuffer |-> NoObject, ext |-> FALSE ]

Ret(g, p, value, error) ==
    [gl |-> g, processor |-> p, value |-> value, error |-> error]

setupGeometry(g, p) ==
    Val({ Val({ Ret(g2, [p EXCEPT !.positionBuffer = g1.last,
                                  !.indexBuffer = g2.last],
                    NoObject, NoError)
                : g2 \in {EmitLast(Create(g1, "buffer"), "bufferData", <<>>)} })
          : g1 \in {EmitLast(Create(g, "buffer"), "bufferData", <<>>)} })

\* constructor(canvas): context is "ok" or "none"; ext is whether the timer
\* query extension is there.
Constructor(context, ext) ==
    IF context = "none"
    THEN Ret(NewContext, NoProcessor, NoObject, "WebGL not supported")
    ELSE setupGeometry(Emit(NewContext, "getContext", <<>>),
                       [NoProcessor EXCEPT !.ext = ext])

\* gl.getShaderInfoLog / gl.getProgramInfoLog: the device's diagnostic text
\* for the shader or program that failed.
getShaderInfoLog(type, source) == "ERROR: 0:1: " \o type \o " " \o source
getProgramInfoLog(fragmentSource) == "ERROR: link " \o fragmentSource

compileShader(g, p, source, type, o) ==
    IF o = "null"
    THEN Ret(g, p, NoObject, "Failed to create shader")
    ELSE Val({ IF o = "fail"
               THEN Ret(Delete(g1, g1.last), p, NoObject,
                        "Shader compilation error: "
                            \o getShaderInfoLog(type, source))
               ELSE Ret(g1, p, g1.last, NoError)
               : g1 \in {EmitLast(Create(g, "shader"), "compileShader",
                                  <<type, source>>)} })

ProgramOutcomes ==
    {"ok", "vsnull", "vsfail", "fsnull", "fsfail", "prognull", "linkfail"}

\* What the device can answer for a fragment source: a value that is not
\* GLSL text never compiles.
OutcomesFor(fragmentSource) ==
    IF fragmentSource \in FragmentSources THEN ProgramOutcomes
    ELSE {"vsnull", "vsfail", "fsnull", "fsfail"}

\* The program is created and linked from the two compiled shaders.
linkProgram(g, p, v, f, fragmentSource, o) ==
    IF o = "prognull"
    THEN Ret(g, p, NoObject, "Failed to create program")
    ELSE Val({ IF o = "linkfail"
               THEN Ret(Delete(g1, g1.last), p, NoObject,
                        "Program linking error: "
                            \o getProgramInfoLog(fragmentSource))
               ELSE Ret([Delete(Delete(g1, v), f) EXCEPT
                            !.linked = @ \cup {<<g1.last, fragmentSource>>}],
                        p, g1.last, NoError)
               : g1 \in {EmitLast(Create(g, "program"), "linkProgram",
                                  <<v, f>>)} })

createProgram(g, p, vertexSource, fragmentSource, o) ==
    Val({ IF v.error # NoError THEN v
          ELSE Val({ IF f.error # NoError THEN f
                     ELSE linkProgram(f.gl, p, v.value, f.value,
                                      fragmentSource, o)
                     : f \in {compileShader(v.gl, p, fragmentSource,
                                "FRAGMENT_SHADER",
                                CASE o = "fsnull" -> "null"
                                  [] o = "fsfail" -> "fail"
                                  [] OTHER -> "ok")} })
          : v \in {compileShader(g, p, vertexSource, "VERTEX_SHADER",
                     CASE o = "vsnull" -> "null" [] o = "vsfail" -> "fail"
                       [] OTHER -> "ok")} })

HasProgram(p, fragmentShader) ==
    \E i \in 1..Len(p.programs) : p.programs[i][1] = fragmentShader

CachedProgram(p, fragmentShader) ==
    p.programs[CHOOSE i \in 1..Len(p.programs) :
                   p.programs[i][1] = fragmentShader][2]

\* A mutant of getProgram: the program is stored whether or not it was made.
getProgram_KeepFailed(g, p, fragmentShader, o) ==
    IF HasProgram(p, fragmentShader)
    THEN Ret(g, p, CachedProgram(p, fragmentShader), NoError)
    ELSE Val({ Ret(c.gl,
                   [p EXCEPT !.programs =
                       Append(@, <<fragmentShader, c.value>>)],
                   c.value, c.error)
               : c \in {createProgram(g, p, "basicVertexShader",
                                      fragmentShader, o)} })

\* A mutant of getProgram: the cache is never consulted.
getProgram_NoCache(g, p, fragmentShader, o) ==
    Val({ IF c.error # NoError THEN c
          ELSE Ret(c.gl,
                   [p EXCEPT !.programs =
                       Append(@, <<fragmentShader, c.value>>)],
                   c.value, NoError)
          : c \in {createProgram(g, p, "basicVertexShader",
                                 fragmentShader, o)} })

getProgram(g, p, fragmentShader, o) ==
    IF HasProgram(p, fragmentShader)
    THEN Ret(g, p, CachedProgram(p, fragmentShader), NoError)
    ELSE Val({ IF c.error # NoError THEN c
               ELSE Ret(c.gl,
                        [p EXCEPT !.programs =
                            Append(@, <<fragmentShader, c.value>>)],
                        c.value, NoError)
               : c \in {createProgram(g, p, "basicVertexShader",
                                      fragmentShader, o)} })

createTexture(g, p, img, o) ==
    IF o = "null"
    THEN Ret(g, p, NoObject, "Failed to create texture")
    ELSE Val({ Ret(SetPixels([g1 EXCEPT !.texture = g1.last], g1.last,
                     << [stage |-> "upload", src |-> img, uniforms |-> {}] >>),
                   [p EXCEPT !.textures = Append(@, g1.last)],
                   g1.last, NoError)
               : g1 \in {EmitLast(Create(g, "texture"), "texImage2D",
                                  <<img>>)} })

FramebufferOutcomes == {"ok", "texnull", "fbnull", "incomplete"}

\* The framebuffer is created, the texture attached and the status checked.
attachFramebuffer(g, p, texture, o) ==
    IF o = "fbnull"
    THEN Ret(g, p, NoObject, "Failed to create framebuffer")
    ELSE Val({ IF o = "incomplete"
               THEN Ret(g2, p, NoObject, "Framebuffer not complete")
               ELSE Ret(g2, [p EXCEPT !.framebuffers = Append(@, g2.last),
                                      !.textures = Append(@, texture)],
                        [framebuffer |-> g2.last, texture |-> texture],
                        NoError)
               : g2 \in {Val({ Emit([x EXCEPT !.framebuffer = x.last,
                                   !.attachment = @ \cup {<<x.last, texture>>}],
                                  "checkFramebufferStatus", <<x.last, o>>)
                               : x \in {EmitLast(Create(g, "framebuffer"),
                                          "framebufferTexture2D",
                                          <<texture>>)} })} })

createFramebuffer(g, p, w, h, o) ==
    IF o = "texnull"
    THEN Ret(g, p, NoObject, "Failed to create framebuffer texture")
    ELSE Val({ attachFramebuffer([g1 EXCEPT !.texture = g1.last], p,
                                 g1.last, o)
               : g1 \in {EmitLast(Create(g, "texture"), "texImage2D",
                                  <<w, h>>)} })

\* What a float uniform receives from undefined: not a number.  Every
\* number a caller passes in this model is a natural.
NaN == -1

\* One entry [name, type, value] of the uniforms object.
ApplyUniform(g, src, e) ==
    IF e[1] \notin DeclaredUniforms(src) THEN g
    ELSE IF e[1] = U("image")
    THEN SetUniform(g, "uniform1i", e[1], <<0>>)
    ELSE IF e[1] = U("resolution")
    THEN SetUniform(g, "uniform2f", e[1],
                    IF e[2] = "array" THEN e[3] ELSE <<NaN, NaN>>)
    ELSE IF e[2] = "number"
    THEN SetUniform(g, "uniform1f", e[1], e[3])
    ELSE g

RECURSIVE ApplyUniformsFrom(_, _, _, _)
ApplyUniformsFrom(g, src, entries, i) ==
    IF i > Len(entries) THEN g
    ELSE ApplyUniformsFrom(ApplyUniform(g, src, entries[i]), src, entries, i + 1)

\* Object.entries(uniforms).forEach(...)
ApplyUniforms(g, src, uniforms) ==
    Val({ ApplyUniformsFrom(g, src, es, 1) : es \in {uniforms} })

\* A mutant of drawPass: the destination is not bound, so the draw lands on
\* whatever framebuffer was bound last.
drawPass_KeepBinding(g, ext, program, inputTex, fragmentShader, uniforms, framebuffer) ==
    LET g1 == IF ext THEN EmitLast(Create(g, "query"), "beginQueryEXT", <<>>)
              ELSE g
        g3 == Emit([g1 EXCEPT !.program = program], "useProgram", <<program>>)
        g4 == Emit([g3 EXCEPT !.texture = inputTex], "bindTexture", <<inputTex>>)
        g5 == ApplyUniforms(g4, fragmentShader, uniforms)
        g6 == DrawElements(g5)
        g7 == IF ext THEN Emit(g6, "endQueryEXT", <<>>) ELSE g6
    IN  Emit(g7, "finish", <<>>)

\* A mutant of drawPass: the pass returns without gl.finish().
drawPass_NoFinish(g, ext, program, inputTex, fragmentShader, uniforms, framebuffer) ==
    LET g1 == IF ext THEN EmitLast(Create(g, "query"), "beginQueryEXT", <<>>)
              ELSE g
        g2 == Emit([g1 EXCEPT !.framebuffer = framebuffer],
                   "bindFramebuffer", <<framebuffer>>)
        g3 == Emit([g2 EXCEPT !.program = program], "useProgram", <<program>>)
        g4 == Emit([g3 EXCEPT !.texture = inputTex], "bindTexture", <<inputTex>>)
        g5 == ApplyUniforms(g4, fragmentShader, uniforms)
        g6 == DrawElements(g5)
    IN  IF ext THEN Emit(g6, "endQueryEXT", <<>>) ELSE g6

\* The device operations of renderFilter once the program is known.
drawPass(g, ext, program, inputTex, fragmentShader, uniforms, framebuffer) ==
    LET g1 == IF ext THEN EmitLast(Create(g, "query"), "beginQueryEXT", <<>>)
              ELSE g
        g2 == Emit([g1 EXCEPT !.framebuffer = framebuffer],
                   "bindFramebuffer", <<framebuffer>>)
        g3 == Emit([g2 EXCEPT !.program = program], "useProgram", <<program>>)
        g4 == Emit([g3 EXCEPT !.texture = inputTex], "bindTexture", <<inputTex>>)
        g5 == ApplyUniforms(g4, fragmentShader, uniforms)
        g6 == DrawElements(g5)
        g7 == IF ext THEN Emit(g6, "endQueryEXT", <<>>) ELSE g6
    IN  Emit(g7, "finish", <<>>)

\* A mutant of renderFilter: an off-screen pass gets a render target of its
\* own instead of reusing one of the pair.
renderFilter_FreshTarget(g, p, inputTex, fragmentShader, uniforms, framebuffer, o, dt) ==
    Val({ IF gp.error # NoError THEN gp
          ELSE Ret(drawPass(gp.gl, gp.processor.ext, gp.value, inputTex,
                            fragmentShader, uniforms, framebuffer),
                   gp.processor, dt, NoError)
          : gp \in {getProgram(IF framebuffer = NoObject THEN g
                               ELSE Create(g, "framebuffer"),
                               p, fragmentShader, o)} })

\* A mutant of renderFilter: the time measured is not returned.
renderFilter_NoTime(g, p, inputTex, fragmentShader, uniforms, framebuffer, o, dt) ==
    Val({ IF gp.error # NoError THEN gp
          ELSE Ret(drawPass(gp.gl, gp.processor.ext, gp.value, inputTex,
                            fragmentShader, uniforms, framebuffer),
                   gp.processor, 0, NoError)
          : gp \in {getProgram(g, p, fragmentShader, o)} })

\* renderFilter: o is the device's answer to compiling and linking the
\* program (read only when the program is not cached), dt the time that
\* passes between the two clock readings.  The value is the elapsed time.
renderFilter(g, p, inputTex, fragmentShader, uniforms, framebuffer, o, dt) ==
    Val({ IF gp.error # NoError THEN gp
          ELSE Ret(drawPass(gp.gl, gp.processor.ext, gp.value, inputTex,
                            fragmentShader, uniforms, framebuffer),
                   gp.processor, dt, NoError)
          : gp \in {getProgram(g, p, fragmentShader, o)} })

clear(g) ==
    Val({ Emit(WritePixels(x,
                 << [stage |-> "clear", src |-> "black", uniforms |-> {}] >>),
               "clear", <<x.framebuffer>>) : x \in {g} })

\* canvas.toDataURL: the canvas has the size of the call.
getCanvasDataURL(g, w, h) == <<"image/png", w, h, g.canvas>>

\* A quotient num / den of the floating-point arithmetic, kept exact.
Quot(num, den) == [num |-> num, den |-> den]

\* A mutant of the estimate: one byte per pixel.
getMemoryUsage_OneByte(w, h, numTextures) ==
    Quot(w * h * numTextures, 1024 * 1024)

getMemoryUsage(w, h, numTextures) ==
    Quot(w * h * 4 * numTextures, 1024 * 1024)

\* gl.deleteBuffer of the two geometry buffers, where set
deleteBuffers(g, p) ==
    LET g1 == IF p.positionBuffer # NoObject
              THEN Delete(g, p.positionBuffer) ELSE g
    IN  IF p.indexBuffer # NoObject THEN Delete(g1, p.indexBuffer) ELSE g1

\* A mutant of destroy: the textures are forgotten without being deleted.
destroy_SkipTextures(g, p) ==
    Ret(deleteBuffers(
            DeleteAll(DeleteAll(g, [i \in 1..Len(p.programs) |->
                                       p.programs[i][2]]),
                      p.framebuffers), p),
        [p EXCEPT !.programs = <<>>, !.framebuffers = <<>>, !.textures = <<>>],
        NoObject, NoError)

destroy(g, p) ==
    Ret(deleteBuffers(
            DeleteAll(DeleteAll(DeleteAll(g,
                        [i \in 1..Len(p.programs) |-> p.programs[i][2]]),
                      p.framebuffers),
                p.textures), p),
        [p EXCEPT !.programs = <<>>, !.framebuffers = <<>>, !.textures = <<>>],
        NoObject, NoError)

(***************************************************************************)
(* processImageWithPipeline.                                               *)
(***************************************************************************)
NoFBO == [framebuffer |-> NoObject, texture |-> NoObject]

\* A mutant of the filter: disabled filters are kept.
EnabledFilters_All(pl) == pl

\* pipeline.filter(filter => filter.enabled)
EnabledFilters(pl) ==
    LET Test(f) == f.enabled IN SelectSeq(pl, Test)

\* uniforms[name] = value on an object whose entries are e.
SetProperty(e, name, type, val) ==
    IF \E i \in 1..Len(e) : e[i][1] = name
    THEN [i \in 1..Len(e) |->
            IF e[i][1] = name THEN <<name, type, val>> ELSE e[i]]
    ELSE Append(e, <<name, type, val>>)

RECURSIVE AddParameters(_, _)
AddParameters(uniforms, params) ==
    IF params = <<>> THEN uniforms
    ELSE AddParameters(
            SetProperty(uniforms, U(Head(params)[1]), "number",
                        <<Head(params)[2]>>),
            Tail(params))

\* const uniforms = { u_image, u_resolution }, then one u_<key> per parameter
Uniforms(filter, tex, w, h) ==
    AddParameters(<< <<U("image"), "object", tex>>,
                     <<U("resolution"), "array", <<w, h>> >> >>,
                  filter.parameters)

\* A mutant of the routing: every pass goes off screen.
PassTarget_NeverScreen(isLastFilter, cur) == cur.framebuffer

\* isLastFilter ? null : currentFBO.framebuffer
PassTarget(isLastFilter, cur) ==
    IF isLastFilter THEN NoObject ELSE cur.framebuffer

\* A mutant of the swap: the next pass samples the input texture again.
\* A mutant of the swap: the texture moves on, the targets stay.
Swap_KeepTargets(isLastFilter, tex, cur, next) ==
    IF isLastFilter THEN <<tex, cur, next>> ELSE <<cur.texture, cur, next>>

Swap_KeepTexture(isLastFilter, tex, cur, next) ==
    IF isLastFilter THEN <<tex, cur, next>> ELSE <<tex, next, cur>>

\* if (!isLastFilter) { currentTexture = currentFBO.texture; swap }
Swap(isLastFilter, tex, cur, next) ==
    IF isLastFilter THEN <<tex, cur, next>> ELSE <<cur.texture, next, cur>>

(***************************************************************************)
(* GPUImageProcessingUI: the pipeline state and the four functions that    *)
(* edit it.  A filter of the application carries the template it was made  *)
(* from (its name, type and paramConfig) besides id, parameters, enabled.  *)
(***************************************************************************)
NoBatch == [stage |-> "none"]
NoFit == [stage |-> "none"]
NoApp ==
    [on |-> FALSE, pipeline |-> <<>>, images |-> <<>>,
     currentImageIndex |-> 0, isProcessing |-> FALSE, isExporting |-> FALSE,
     upload |-> <<>>, batch |-> NoBatch, export |-> NoBatch,
     downloads |-> <<>>, lastBatch |-> NoBatch, fit |-> NoFit]

\* Math.round of the quotient num / den of two positive numbers.
MathRound(num, den) == (2 * num + den) \div (2 * den)

\* ratio = Math.min(maxWidth / width, maxHeight / height); both sides are
\* multiplied by it and rounded.  <<width, height>> of the result.
getFittedSize(w, h, maxWidth, maxHeight) ==
    IF maxWidth * h <= maxHeight * w
    THEN <<MathRound(w * maxWidth, w), MathRound(h * maxWidth, w)>>
    ELSE <<MathRound(w * maxHeight, h), MathRound(h * maxHeight, h)>>

\* An image of the application: processedDataUrl is undefined until a
\* result is stored; by remembers the pipeline the result was made with.
NoUrl == [url |-> <<>>, by |-> <<>>]
File(k) ==
    [src |-> IF k % 2 = 1 THEN "imgA" ELSE "imgB",
     name |-> k,
     dimensions |-> IF k % 2 = 1 THEN <<4, 4>> ELSE <<8, 4>>,
     processedDataUrl |-> NoUrl]
UploadSets == { [k \in 1..n |-> File(k)] : n \in 1..MaxImages }

\* images[currentImageIndex]
HasCurrentImage(a) ==
    a.currentImageIndex >= 0 /\ a.currentImageIndex < Len(a.images)
CurrentImage(a) == a.images[a.currentImageIndex + 1]

AnyEnabled(pl) == \E i \in DOMAIN pl : pl[i].enabled

\* The size processAllImages and batchExport ask for.
ProcessSize(im) ==
    getFittedSize(im.dimensions[1], im.dimensions[2], 1920, 1080)

\* The call of processImageWithPipeline the application is about to make
\* and then awaits: <<pipeline, image source, size>>.
Requests(a) ==
    IF a.batch.stage = "calling"
    THEN {<<a.batch.pipeline, im.src, ProcessSize(im)>> :
            im \in {a.batch.images[a.batch.i + 1]}}
    ELSE IF a.export.stage = "calling"
    THEN {<<a.export.pipeline, im.src, ProcessSize(im)>> :
            im \in {a.export.images[a.export.i + 1]}}
    ELSE {}

\* downloads and lastBatch tell what the last step of the application
\* did: the next step starts from none.
Quiet(a) == [a EXCEPT !.downloads = <<>>, !.lastBatch = NoBatch]

\* link.click(): one more download of the step.
Download(a, href, by) ==
    [a EXCEPT !.downloads = Append(@, [href |-> href, by |-> by])]

\* A mutant of the end of the batch: the flag is reset in the try block
\* only, not in a finally.
BatchEnd_NoFinally(a, how) ==
    [a EXCEPT !.isProcessing = (how = "threw"), !.batch = NoBatch,
              !.lastBatch = [stage |-> how, n |-> Len(a.batch.images),
                             calls |-> a.batch.calls,
                             results |-> a.batch.results,
                             before |-> a.batch.before]]

\* finally of processAllImages / of batchExport
BatchEnd(a, how) ==
    [a EXCEPT !.isProcessing = FALSE, !.batch = NoBatch,
              !.lastBatch = [stage |-> how, n |-> Len(a.batch.images),
                             calls |-> a.batch.calls,
                             results |-> a.batch.results,
                             before |-> a.batch.before]]
ExportEnd(a) == [a EXCEPT !.isExporting = FALSE, !.export = NoBatch]

\* The loop of processAllImages from image i up to its await.
BatchLoop(a, i) ==
    IF i < Len(a.batch.images)
    THEN [a EXCEPT !.currentImageIndex = i,
                   !.batch.i = i, !.batch.stage = "calling",
                   !.batch.calls = Append(@, i)]
    ELSE BatchEnd([a EXCEPT !.images = a.batch.processedImages,
                            !.batch.before = a.images], "completed")

\* A mutant of the continuation: a failed image ends the batch.
BatchResume_StopsOnFailure(a, result) ==
    IF result.success
    THEN [a EXCEPT
            !.batch.processedImages[a.batch.i + 1].processedDataUrl =
                [url |-> result.imageDataUrl, by |-> a.batch.pipeline],
            !.batch.results = Append(@, TRUE),
            !.batch.stage = "delay"]
    ELSE BatchEnd([a EXCEPT !.batch.results = Append(@, FALSE)], "completed")

\* processAllImages after its await of the result, up to the delay.
BatchResume(a, result) ==
    IF result.success
    THEN [a EXCEPT
            !.batch.processedImages[a.batch.i + 1].processedDataUrl =
                [url |-> result.imageDataUrl, by |-> a.batch.pipeline],
            !.batch.results = Append(@, TRUE),
            !.batch.stage = "delay"]
    ELSE [a EXCEPT !.batch.results = Append(@, FALSE),
                   !.batch.stage = "delay"]

\* The loop of batchExport over processed images, from image i up to its
\* next await or its end: an image that has a processedDataUrl is
\* downloaded at once.
RECURSIVE ExportLoop(_, _)
ExportLoop(a, i) ==
    IF i >= Len(a.export.images) THEN ExportEnd(a)
    ELSE LET im == a.export.images[i + 1]
             shown == [a EXCEPT !.currentImageIndex = i, !.export.i = i]
         IN  IF im.processedDataUrl.url = <<>>
             THEN [shown EXCEPT !.export.stage = "calling"]
             ELSE ExportLoop(Download(shown, im.processedDataUrl.url,
                                      im.processedDataUrl.by), i + 1)

\* setImages(prev => prev.map((img, idx) => idx === i ? {...} : img))
StoreProcessed(images, i, u) ==
    [k \in DOMAIN images |->
        IF k = i + 1 THEN [images[k] EXCEPT !.processedDataUrl = u]
        ELSE images[k]]

\* batchExport after its await of the result.
ExportResume(a, result) ==
    IF result.success /\ "imageDataUrl" \in DOMAIN result
    THEN LET u == [url |-> result.imageDataUrl, by |-> a.export.pipeline]
             stored == [a EXCEPT
                          !.images = StoreProcessed(@, a.export.i, u),
                          !.downloads = <<>>]
         IN  ExportLoop(Download(stored, u.url, u.by), a.export.i + 1)
    ELSE ExportLoop([a EXCEPT !.downloads = <<>>], a.export.i + 1)

\* The continuation of the await in the application.
Resumed(a, result) ==
    IF ~a.on THEN a
    ELSE IF a.batch.stage = "calling" THEN BatchResume(Quiet(a), result)
    ELSE ExportResume(Quiet(a), result)

\* defaultParams of the templates, in tenths.
defaultParams(filterId) ==
    CASE filterId = S_debug -> <<>>
      [] filterId = S_blur -> << <<"radius", 10>> >>
      [] filterId = S_sharpen -> << <<"strength", 10>> >>
      [] filterId = S_edge -> << <<"threshold", 5>> >>
      [] filterId = S_brightness -> << <<"value", 0>> >>
      [] filterId = S_contrast -> << <<"value", 10>> >>
      [] filterId = S_saturation -> << <<"value", 10>> >>
      [] filterId = S_noise -> << <<"strength", 5>> >>
      [] filterId = S_bilateral -> << <<"spatial", 10>>, <<"color", 1>> >>

addFilterToPipeline(prev, filterId, now) ==
    IF filterId \in availableFilters
    THEN Append(prev, [id |-> NewFilterId(filterId, now),
                       template |-> filterId,
                       parameters |-> defaultParams(filterId),
                       enabled |-> TRUE])
    ELSE prev

removeFilterFromPipeline(prev, filterId) ==
    LET Differs(f) == f.id # filterId IN SelectSeq(prev, Differs)

\* { ...parameters, [paramName]: value }: an own key keeps its place, a new
\* key goes last.
SetEntry(entries, paramName, value) ==
    IF \E i \in DOMAIN entries : entries[i][1] = paramName
    THEN [i \in DOMAIN entries |->
            IF entries[i][1] = paramName THEN <<paramName, value>>
            ELSE entries[i]]
    ELSE Append(entries, <<paramName, value>>)

updateFilterParameter(prev, filterId, paramName, value) ==
    [i \in DOMAIN prev |->
        IF prev[i].id = filterId
        THEN [prev[i] EXCEPT
                 !.parameters = SetEntry(@, paramName, value)]
        ELSE prev[i]]

\* A mutant of toggleFilter: every filter is toggled.
toggleFilter_Every(prev, filterId) ==
    [i \in DOMAIN prev |-> [prev[i] EXCEPT !.enabled = ~@]]

toggleFilter(prev, filterId) ==
    [i \in DOMAIN prev |->
        IF prev[i].id = filterId THEN [prev[i] EXCEPT !.enabled = ~@]
        ELSE prev[i]]

\* The record of the calls that ended before: whether device objects of
\* theirs were never released, and the fragment sources they compiled and
\* linked.  It is kept only where on is set.
NotRecorded == [on |-> FALSE, leaked |-> FALSE, compiled |-> {}]

\* The pipelines of the calls that are recorded from one to the next.
RunPipelines ==
    { pl \in Pipelines :
        Len(pl) <= 1 /\ \A i \in DOMAIN pl : pl[i].enabled }

(***************************************************************************)
(* ReglSurface, the component.  The repository holds two of them: the one  *)
(* that awaits processImageWithPipeline and draws the encoded result on    *)
(* its canvas, and the one that runs the passes on its own canvas inside   *)
(* img.onload.  An effect is one run of useEffect: its props, how far its  *)
(* image load has come, the processor its closure holds, whether React has *)
(* run its cleanup, and what the run found when it asked for a context.    *)
(***************************************************************************)
Components == {"awaiting", "inline"}

NoSurface ==
    [on |-> FALSE, component |-> "", mounted |-> FALSE, context |-> "none",
     canvas |-> <<"blank", 0>>, effects |-> <<>>]

\* The props a surface is rendered with; its size is fixed.
SurfacePipelines ==
    { <<>>,
      << [id |-> NewFilterId(S_brightness, 1),
          parameters |-> << <<"value", 10>> >>, enabled |-> TRUE] >> }
SurfaceSize == <<4, 4>>

NewEffect(img, pl) ==
    [image |-> img, pipeline |-> pl, stage |-> "loading",
     processor |-> "null", cleaned |-> FALSE, found |-> "pending"]

\* The function an effect returned, run by React before the next effect
\* and at unmount.  The awaiting component's effect returns none.
Cleanup(s) ==
    IF s.effects = <<>> THEN s
    ELSE LET i == Len(s.effects)
             e == s.effects[i]
         IN  IF s.component = "inline"
             THEN [s EXCEPT !.effects[i] =
                     [e EXCEPT !.cleaned = TRUE,
                               !.processor = IF e.processor = "live"
                                             THEN "destroyed"
                                             ELSE e.processor]]
             ELSE [s EXCEPT !.effects[i].cleaned = TRUE]

\* The effect of the awaiting component whose call is in flight.
Calling(s) ==
    { i \in DOMAIN s.effects : s.effects[i].stage = "calling" }

Awaited(s, pl, img, size) ==
    \E i \in Calling(s) :
        /\ s.effects[i].image = img /\ s.effects[i].pipeline = pl
        /\ size = SurfaceSize

\* The continuation of await processImageWithPipeline(...): an encoded
\* result is drawn on the component's canvas through a 2D context; a
\* failure result is handed to onProcessingComplete and nothing is drawn.
Received(s, result, ans) ==
    IF ~s.on THEN s
    ELSE LET i == CHOOSE j \in Calling(s) : TRUE
             none == \E k \in 1..Len(ans) : ans[k] = "none"
             drawn == result.success /\ "imageDataUrl" \in DOMAIN result
         IN  [s EXCEPT !.effects[i].stage = "done",
                       !.effects[i].found = IF none THEN "none" ELSE "ok",
                       !.canvas = IF drawn THEN <<"processed", i>> ELSE @,
                       !.context = IF drawn THEN "2d" ELSE @]

\* A mutant of the failure result: it carries an (empty) image.
Failure_WithImage(msg) ==
    [success |-> FALSE, gpuTime |-> 0, totalTime |-> 0,
     memoryUsage |-> Quot(0, 1), error |-> msg, imageDataUrl |-> <<>>]

\* A mutant of the failure result: it reports the time spent so far.
Failure_TimeSoFar(msg) ==
    [success |-> FALSE, gpuTime |-> totalGpuTime, totalTime |-> elapsed,
     memoryUsage |-> Quot(0, 1), error |-> msg]

Failure(msg) ==
    [success |-> FALSE, gpuTime |-> 0, totalTime |-> 0,
     memoryUsage |-> Quot(0, 1), error |-> msg]

Init ==
    /\ pc = "idle"
    /\ pipeline = <<>> /\ image = "" /\ width = 0 /\ height = 0
    /\ gl = NewContext /\ processor = NoProcessor
    /\ inputTexture = NoObject /\ fbo1 = NoFBO /\ fbo2 = NoFBO
    /\ enabledFilters = <<>> /\ index = 0
    /\ currentTexture = NoObject /\ currentFBO = NoFBO /\ nextFBO = NoFBO
    /\ totalGpuTime = 0 /\ elapsed = 0
    /\ thrown = NoError /\ resolved = <<>> /\ answers = <<>>
    /\ earlier = NotRecorded
    /\ surface = NoSurface
    /\ app = NoApp

\* The same, with the calls recorded from one to the next.
InitRuns ==
    /\ pc = "idle"
    /\ pipeline = <<>> /\ image = "" /\ width = 0 /\ height = 0
    /\ gl = NewContext /\ processor = NoProcessor
    /\ inputTexture = NoObject /\ fbo1 = NoFBO /\ fbo2 = NoFBO
    /\ enabledFilters = <<>> /\ index = 0
    /\ currentTexture = NoObject /\ currentFBO = NoFBO /\ nextFBO = NoFBO
    /\ totalGpuTime = 0 /\ elapsed = 0
    /\ thrown = NoError /\ resolved = <<>> /\ answers = <<>>
    /\ earlier = [NotRecorded EXCEPT !.on = TRUE]
    /\ surface = NoSurface
    /\ app = NoApp

locals == <<inputTexture, fbo1, fbo2, enabledFilters, index, currentTexture,
            currentFBO, nextFBO, totalGpuTime>>
args == <<pipeline, image, width, height>>

\* The call: a canvas of the size is created and the image starts loading.
Call(pl, img, size) ==
    /\ pc = "idle"
    /\ earlier.on => pl \in RunPipelines
    /\ surface.on => Awaited(surface, pl, img, size)
    /\ app.on => <<pl, img, size>> \in Requests(app)
    /\ pc' = "loading"
    /\ pipeline' = pl /\ image' = img /\ width' = size[1] /\ height' = size[2]
    /\ UNCHANGED <<gl, processor, locals, elapsed, thrown, resolved, answers,
                   earlier, surface, app>>

\* A mutant of Settle: the two time accumulators outlive the call.
Settle_KeepsTimes ==
    /\ pc = "done"
    /\ pc' = "idle"
    /\ pipeline' = <<>> /\ image' = "" /\ width' = 0 /\ height' = 0
    /\ gl' = NewContext /\ processor' = NoProcessor
    /\ inputTexture' = NoObject /\ fbo1' = NoFBO /\ fbo2' = NoFBO
    /\ enabledFilters' = <<>> /\ index' = 0
    /\ currentTexture' = NoObject /\ currentFBO' = NoFBO /\ nextFBO' = NoFBO
    /\ totalGpuTime' = totalGpuTime /\ elapsed' = elapsed
    /\ thrown' = NoError /\ resolved' = <<>> /\ answers' = <<>>
    /\ earlier' = earlier
    /\ surface' = surface /\ app' = app

\* The caller awaiting the promise takes the result; nothing refers to the
\* canvas, the context or the processor of the call any more.
Settle ==
    /\ pc = "done"
    /\ pc' = "idle"
    /\ pipeline' = <<>> /\ image' = "" /\ width' = 0 /\ height' = 0
    /\ gl' = NewContext /\ processor' = NoProcessor
    /\ inputTexture' = NoObject /\ fbo1' = NoFBO /\ fbo2' = NoFBO
    /\ enabledFilters' = <<>> /\ index' = 0
    /\ currentTexture' = NoObject /\ currentFBO' = NoFBO /\ nextFBO' = NoFBO
    /\ totalGpuTime' = 0 /\ elapsed' = 0
    /\ thrown' = NoError /\ resolved' = <<>> /\ answers' = <<>>
    /\ earlier' = IF earlier.on
                  THEN [on |-> TRUE,
                        leaked |-> (earlier.leaked \/ gl.live # {}),
                        compiled |-> earlier.compiled
                                       \cup { l[2] : l \in gl.linked }]
                  ELSE earlier
    /\ surface' = Received(surface, resolved[1], answers)
    /\ app' = Resumed(app, resolved[1])

\* A mutant of img.onerror: the context is obtained before the image loads.
ImgError_AfterContext ==
    /\ pc = "loading"
    /\ pc' = "done"
    /\ answers' = Append(answers, "error")
    /\ resolved' = Append(resolved, Failure("Failed to load image"))
    /\ gl' = Emit(NewContext, "getContext", <<>>)
    /\ UNCHANGED <<args, processor, locals, elapsed, thrown, earlier, surface,
                   app>>

\* img.onerror
ImgError ==
    /\ pc = "loading"
    /\ pc' = "done"
    /\ answers' = Append(answers, "error")
    /\ resolved' = Append(resolved, Failure("Failed to load image"))
    /\ UNCHANGED <<args, gl, processor, locals, elapsed, thrown, earlier,
                   surface, app>>

\* A mutant of Step: a throw leaves the handler and nothing catches it.
Step_NoCatch(r, next, ans) ==
    /\ gl' = r.gl /\ processor' = r.processor
    /\ answers' = answers \o ans
    /\ IF r.error # NoError
       THEN /\ pc' = "done" /\ thrown' = r.error
            /\ resolved' = resolved
       ELSE /\ pc' = next /\ thrown' = thrown
            /\ resolved' = resolved
    /\ UNCHANGED <<args, earlier, surface, app>>

\* A mutant of Step: an error is reported and the handler goes on.
Step_GoesOn(r, next, ans) ==
    /\ gl' = r.gl /\ processor' = r.processor
    /\ answers' = answers \o ans
    /\ pc' = next
    /\ IF r.error # NoError
       THEN /\ thrown' = r.error
            /\ resolved' = Append(resolved, Failure(r.error))
       ELSE /\ thrown' = thrown
            /\ resolved' = resolved
    /\ UNCHANGED <<args, earlier, surface, app>>

\* A step of img.onload whose call on the processor returned or threw r.
\* A throw leaves the try block for catch (error), which resolves the
\* promise with the failure.
Step(r, next, ans) ==
    /\ gl' = r.gl /\ processor' = r.processor
    /\ answers' = answers \o ans
    /\ IF r.error # NoError
       THEN /\ pc' = "done" /\ thrown' = r.error
            /\ resolved' = Append(resolved, Failure(r.error))
       ELSE /\ pc' = next /\ thrown' = thrown
            /\ resolved' = resolved
    /\ UNCHANGED <<args, earlier, surface, app>>

\* img.onload: totalStartTime is read and the processor constructed.
Construct(context, ext) ==
    /\ pc = "loading"
    /\ \E r \in {Constructor(context, ext)} :
          Step(r, "texture",
               <<"load", context>> \o
               (IF context = "ok" THEN <<IF ext THEN "ext" ELSE "noext">>
                ELSE <<>>))
    /\ UNCHANGED <<locals, elapsed>>

CreateInputTexture(o) ==
    /\ pc = "texture"
    /\ \E r \in {createTexture(gl, processor, image, o)} :
          /\ Step(r, "fbo1", <<o>>)
          /\ inputTexture' = IF r.error = NoError THEN r.value ELSE inputTexture
    /\ UNCHANGED <<fbo1, fbo2, enabledFilters, index, currentTexture,
                   currentFBO, nextFBO, totalGpuTime, elapsed>>

CreateFbo1(o) ==
    /\ pc = "fbo1"
    /\ \E r \in {createFramebuffer(gl, processor, width, height, o)} :
          /\ Step(r, "fbo2", <<o>>)
          /\ fbo1' = IF r.error = NoError THEN r.value ELSE fbo1
    /\ UNCHANGED <<inputTexture, fbo2, enabledFilters, index, currentTexture,
                   currentFBO, nextFBO, totalGpuTime, elapsed>>

CreateFbo2(o) ==
    /\ pc = "fbo2"
    /\ \E r \in {createFramebuffer(gl, processor, width, height, o)} :
          /\ Step(r, "filter", <<o>>)
          /\ fbo2' = IF r.error = NoError THEN r.value ELSE fbo2
    /\ UNCHANGED <<inputTexture, fbo1, enabledFilters, index, currentTexture,
                   currentFBO, nextFBO, totalGpuTime, elapsed>>

\* The enabled subset is taken, the surface cleared and the loop set up.
SelectEnabled(dt) ==
    /\ pc = "filter"
    /\ enabledFilters' = EnabledFilters(pipeline)
    /\ \E r \in {Ret(clear(gl), processor, NoObject, NoError)} :
          Step(r, "render", <<>>)
    /\ index' = 0
    /\ currentTexture' = inputTexture /\ currentFBO' = fbo1 /\ nextFBO' = fbo2
    /\ elapsed' = elapsed + dt
    /\ UNCHANGED <<inputTexture, fbo1, fbo2, totalGpuTime>>

\* enabledFilters.length === 0: the image goes through the passthrough
\* program to the canvas.
RenderIdentity(o, dt) ==
    /\ pc = "render" /\ Len(enabledFilters) = 0
    /\ o \in OutcomesFor("passthrough")
    /\ \E r \in {renderFilter(gl, processor, inputTexture, "passthrough",
                    << <<U("image"), "object", inputTexture>> >>,
                    NoObject, o, dt)} :
          /\ r.error # NoError => dt = 0
          /\ Step(r, "encode", <<o>>)
          /\ totalGpuTime' = IF r.error = NoError
                             THEN totalGpuTime + r.value ELSE totalGpuTime
          /\ elapsed' = IF r.error = NoError THEN elapsed + dt ELSE elapsed
    /\ UNCHANGED <<inputTexture, fbo1, fbo2, enabledFilters, index,
                   currentTexture, currentFBO, nextFBO>>

\* One turn of enabledFilters.forEach.
RenderPass(o, dt) ==
    /\ pc = "render" /\ index < Len(enabledFilters)
    /\ \E filter \in {enabledFilters[index + 1]},
          isLastFilter \in {index = Len(enabledFilters) - 1} :
       \E fragmentShader \in {getShaderForFilter(filter.id)} :
       \E cached \in {HasProgram(processor, fragmentShader)} :
          /\ o \in OutcomesFor(fragmentShader)
          /\ cached => o = "ok"
          /\ \E r \in {renderFilter(gl, processor, currentTexture,
                          fragmentShader,
                          Uniforms(filter, currentTexture, width, height),
                          PassTarget(isLastFilter, currentFBO), o, dt)},
                s \in {Swap(isLastFilter, currentTexture, currentFBO,
                            nextFBO)} :
                /\ r.error # NoError => dt = 0
                /\ Step(r, IF isLastFilter THEN "encode" ELSE "render",
                        IF cached THEN <<>> ELSE <<o>>)
                /\ IF r.error = NoError
                   THEN /\ totalGpuTime' = totalGpuTime + r.value
                        /\ elapsed' = elapsed + dt
                        /\ index' = index + 1
                        /\ currentTexture' = s[1]
                        /\ currentFBO' = s[2] /\ nextFBO' = s[3]
                   ELSE UNCHANGED <<totalGpuTime, elapsed, index,
                                    currentTexture, currentFBO, nextFBO>>
    /\ UNCHANGED <<inputTexture, fbo1, fbo2, enabledFilters>>

\* The result is measured and read back, the processor destroyed and the
\* promise resolved.
Encode ==
    /\ pc = "encode"
    /\ \E totalTime \in {elapsed},
          memoryUsage \in {getMemoryUsage(width, height,
                                          Len(enabledFilters) + 2)},
          imageDataUrl \in {getCanvasDataURL(gl, width, height)},
          d \in {destroy(Emit(gl, "toDataURL", <<>>), processor)} :
          /\ gl' = d.gl /\ processor' = d.processor
          /\ resolved' = Append(resolved,
                [success |-> TRUE, gpuTime |-> totalGpuTime,
                 totalTime |-> totalTime, memoryUsage |-> memoryUsage,
                 imageDataUrl |-> imageDataUrl])
    /\ pc' = "done"
    /\ UNCHANGED <<args, locals, elapsed, thrown, answers, earlier, surface,
                   app>>

Next ==
    \/ \E pl \in Pipelines, img \in Images, size \in Sizes : Call(pl, img, size)
    \/ ImgError
    \/ \E context \in {"ok", "none"}, ext \in BOOLEAN : Construct(context, ext)
    \/ \E o \in {"ok", "null"} : CreateInputTexture(o)
    \/ \E o \in FramebufferOutcomes : CreateFbo1(o)
    \/ \E o \in FramebufferOutcomes : CreateFbo2(o)
    \/ \E dt \in Ticks : SelectEnabled(dt)
    \/ \E o \in ProgramOutcomes, dt \in Ticks : RenderIdentity(o, dt)
    \/ \E o \in ProgramOutcomes, dt \in Ticks : RenderPass(o, dt)
    \/ Encode
    \/ Settle

Spec == Init /\ [][Next]_vars

\* Calls one after the other in one page, as the batch loop makes them.
SpecRuns == InitRuns /\ [][Next]_vars

\* Pipelines of up to MaxPasses enabled filters of two registered kinds.
LongPipelines ==
    UNION { [1..n -> { f \in Filters :
                         /\ f.enabled
                         /\ SplitFirst(f.id) \in {S_brightness, S_blur} }] :
            n \in 0..MaxPasses }

NextPasses ==
    \/ \E pl \in LongPipelines, img \in Images : Call(pl, img, <<4, 4>>)
    \/ ImgError
    \/ \E context \in {"ok", "none"}, ext \in BOOLEAN : Construct(context, ext)
    \/ \E o \in {"ok", "null"} : CreateInputTexture(o)
    \/ \E o \in FramebufferOutcomes : CreateFbo1(o)
    \/ \E o \in FramebufferOutcomes : CreateFbo2(o)
    \/ \E dt \in Ticks : SelectEnabled(dt)
    \/ \E o \in ProgramOutcomes, dt \in Ticks : RenderIdentity(o, dt)
    \/ \E o \in ProgramOutcomes, dt \in Ticks : RenderPass(o, dt)
    \/ Encode
    \/ Settle

\* Runs of many passes.
SpecPasses == Init /\ [][NextPasses]_vars

\* img.onload once it has begun: it is synchronous code, run to its end.
Handler ==
    \/ \E o \in {"ok", "null"} : CreateInputTexture(o)
    \/ \E o \in FramebufferOutcomes : CreateFbo1(o)
    \/ \E o \in FramebufferOutcomes : CreateFbo2(o)
    \/ \E dt \in Ticks : SelectEnabled(dt)
    \/ \E o \in ProgramOutcomes, dt \in Ticks : RenderIdentity(o, dt)
    \/ \E o \in ProgramOutcomes, dt \in Ticks : RenderPass(o, dt)
    \/ Encode

\* The same runs, with the handler never left half way.
SpecPassesFair == Init /\ [][NextPasses]_vars /\ WF_vars(Handler)

(***************************************************************************)
(* The component's own steps.                                              *)
(***************************************************************************)
engine == <<pc, pipeline, image, width, height, gl, processor,
            inputTexture, fbo1, fbo2, enabledFilters, index, currentTexture,
            currentFBO, nextFBO, totalGpuTime, elapsed, thrown, resolved,
            answers, earlier>>

\* useEffect runs (mount, or a render with changed props): React first runs
\* the cleanup the previous run returned; the body sizes the canvas, which
\* clears it, and starts loading the image.
RunEffect(img, pl) ==
    /\ surface.on /\ surface.mounted
    /\ Len(surface.effects) < MaxEffects
    /\ surface' = [Cleanup(surface) EXCEPT
                      !.canvas = <<"blank", 0>>,
                      !.effects = Append(@, NewEffect(img, pl))]
    /\ UNCHANGED <<engine, app>>

\* The component is removed: canvasRef.current becomes null and the last
\* cleanup runs.
Unmount ==
    /\ surface.on /\ surface.mounted
    /\ surface' = [Cleanup(surface) EXCEPT !.mounted = FALSE]
    /\ UNCHANGED <<engine, app>>

\* What the canvas answers to getContext: a canvas that has a context of
\* one kind gives null for the other kind.
Obtainable(s, o) ==
    IF o = "none" THEN s.context # "webgl" ELSE s.context # "2d"

\* img.onload of the inline component, past the canvasRef test.  o is what
\* the try block met: "none" when the constructor threw 'WebGL not
\* supported' (processor is still null), "throws" when a later call on the
\* processor threw, "ok" when the passes were drawn.  The catch block asks
\* the canvas for a 2D context and draws the source image if it gets one.
InlineLoad(s, i, o) ==
    CASE o = "none" ->
           [s EXCEPT !.effects[i].stage = "done",
                     !.effects[i].found = "none",
                     !.canvas = <<"source", i>>, !.context = "2d"]
      [] o = "ok" ->
           [s EXCEPT !.effects[i].stage = "done",
                     !.effects[i].found = "ok",
                     !.effects[i].processor = "live",
                     !.canvas = <<"processed", i>>, !.context = "webgl"]
      [] OTHER ->
           [s EXCEPT !.effects[i].stage = "done",
                     !.effects[i].found = "ok",
                     !.effects[i].processor = "live",
                     !.context = "webgl"]

\* img.onload of effect i, of either component.
SurfaceLoad(i, o) ==
    /\ surface.on
    /\ i \in DOMAIN surface.effects
    /\ surface.effects[i].stage = "loading"
    /\ IF ~surface.mounted
       THEN /\ o = "ok"
            /\ surface' = [surface EXCEPT !.effects[i].stage = "returned"]
       ELSE IF surface.component = "awaiting"
       THEN /\ o = "ok"
            /\ pc = "idle" /\ Calling(surface) = {}
            /\ surface' = [surface EXCEPT !.effects[i].stage = "calling"]
       ELSE /\ Obtainable(surface, o)
            /\ surface' = InlineLoad(surface, i, o)
    /\ UNCHANGED <<engine, app>>

\* The image of effect i fails to load: the inline component logs it, the
\* awaiting one has no handler.
SurfaceError(i) ==
    /\ surface.on
    /\ i \in DOMAIN surface.effects
    /\ surface.effects[i].stage = "loading"
    /\ surface' = [surface EXCEPT !.effects[i].stage = "failed"]
    /\ UNCHANGED <<engine, app>>

InitSurface ==
    /\ pc = "idle"
    /\ pipeline = <<>> /\ image = "" /\ width = 0 /\ height = 0
    /\ gl = NewContext /\ processor = NoProcessor
    /\ inputTexture = NoObject /\ fbo1 = NoFBO /\ fbo2 = NoFBO
    /\ enabledFilters = <<>> /\ index = 0
    /\ currentTexture = NoObject /\ currentFBO = NoFBO /\ nextFBO = NoFBO
    /\ totalGpuTime = 0 /\ elapsed = 0
    /\ thrown = NoError /\ resolved = <<>> /\ answers = <<>>
    /\ earlier = NotRecorded
    /\ app = NoApp
    /\ surface \in { [NoSurface EXCEPT !.on = TRUE, !.component = c,
                                       !.mounted = TRUE] : c \in Components }

NextSurface ==
    \/ \E img \in Images, pl \in SurfacePipelines : RunEffect(img, pl)
    \/ Unmount
    \/ \E i \in 1..MaxEffects, o \in {"ok", "none", "throws"} : SurfaceLoad(i, o)
    \/ \E i \in 1..MaxEffects : SurfaceError(i)
    \/ \E pl \in SurfacePipelines, img \in Images : Call(pl, img, SurfaceSize)
    \/ ImgError
    \/ \E context \in {"ok", "none"}, ext \in BOOLEAN : Construct(context, ext)
    \/ \E o \in {"ok", "null"} : CreateInputTexture(o)
    \/ \E o \in FramebufferOutcomes : CreateFbo1(o)
    \/ \E o \in FramebufferOutcomes : CreateFbo2(o)
    \/ \E dt \in Ticks : SelectEnabled(dt)
    \/ \E o \in ProgramOutcomes, dt \in Ticks : RenderIdentity(o, dt)
    \/ \E o \in ProgramOutcomes, dt \in Ticks : RenderPass(o, dt)
    \/ Encode
    \/ Settle

\* A mounted ReglSurface, re-rendered and unmounted by its parent.
SpecSurface == InitSurface /\ [][NextSurface]_vars

(***************************************************************************)
(* The application's steps on its pipeline.                                *)
(***************************************************************************)
\* What the user clicks and what Date.now() reads.
AddRequests == {S_brightness, S_bilateral, S_sepia}
Clock == {1, 2}
ParamNames == {"color"}
ParamValues == {5}
FilterIds ==
    { NewFilterId(t, now) : t \in AddRequests, now \in Clock }

AddFilter(filterId, now) ==
    /\ Len(app.pipeline) < MaxFilters
    /\ ~app.isProcessing /\ ~app.isExporting
    /\ app' = [Quiet(app) EXCEPT
                 !.pipeline = addFilterToPipeline(@, filterId, now)]
    /\ UNCHANGED <<engine, surface>>

RemoveFilter(filterId) ==
    /\ ~app.isProcessing /\ ~app.isExporting
    /\ app' = [Quiet(app) EXCEPT !.pipeline = removeFilterFromPipeline(@, filterId)]
    /\ UNCHANGED <<engine, surface>>

UpdateParameter(filterId, paramName, value) ==
    /\ ~app.isProcessing /\ ~app.isExporting
    /\ app' = [Quiet(app) EXCEPT
                 !.pipeline = updateFilterParameter(@, filterId, paramName,
                                                    value)]
    /\ UNCHANGED <<engine, surface>>

ToggleFilter(filterId) ==
    /\ ~app.isProcessing /\ ~app.isExporting
    /\ app' = [Quiet(app) EXCEPT !.pipeline = toggleFilter(@, filterId)]
    /\ UNCHANGED <<engine, surface>>

InitApp ==
    /\ pc = "idle"
    /\ pipeline = <<>> /\ image = "" /\ width = 0 /\ height = 0
    /\ gl = NewContext /\ processor = NoProcessor
    /\ inputTexture = NoObject /\ fbo1 = NoFBO /\ fbo2 = NoFBO
    /\ enabledFilters = <<>> /\ index = 0
    /\ currentTexture = NoObject /\ currentFBO = NoFBO /\ nextFBO = NoFBO
    /\ totalGpuTime = 0 /\ elapsed = 0
    /\ thrown = NoError /\ resolved = <<>> /\ answers = <<>>
    /\ earlier = NotRecorded
    /\ surface = NoSurface
    /\ app = NoApp

NextApp ==
    \/ \E filterId \in AddRequests, now \in Clock : AddFilter(filterId, now)
    \/ \E filterId \in FilterIds : RemoveFilter(filterId)
    \/ \E filterId \in FilterIds, paramName \in ParamNames,
          value \in ParamValues : UpdateParameter(filterId, paramName, value)
    \/ \E filterId \in FilterIds : ToggleFilter(filterId)

\* The user edits the pipeline.
SpecApp == InitApp /\ [][NextApp]_vars

(***************************************************************************)
(* The application's steps on its images: upload, navigation, the batch,   *)
(* the export.  A step is what runs between two awaits.                    *)
(***************************************************************************)
Idle(a) == ~a.isProcessing /\ ~a.isExporting

\* handleImageUpload: the files start being read.
StartUpload(files) ==
    /\ app.on /\ Idle(app) /\ app.upload = <<>>
    /\ app' = [Quiet(app) EXCEPT !.upload = files]
    /\ UNCHANGED <<engine, surface>>

\* Promise.all(imagePromises).then(...)
UploadDone ==
    /\ app.on /\ app.upload # <<>>
    /\ pc \in {"idle", "loading", "done"}
    /\ app' = [Quiet(app) EXCEPT !.images = app.upload, !.currentImageIndex = 0,
                          !.upload = <<>>]
    /\ UNCHANGED <<engine, surface>>

\* navigateCarousel, with the images.length of the last render.
NavigateCarousel(direction) ==
    /\ app.on /\ Idle(app) /\ Len(app.images) > 1
    /\ app' = [Quiet(app) EXCEPT !.currentImageIndex =
                 IF direction = "prev"
                 THEN (IF @ > 0 THEN @ - 1 ELSE Len(app.images) - 1)
                 ELSE (IF @ < Len(app.images) - 1 THEN @ + 1 ELSE 0)]
    /\ UNCHANGED <<engine, surface>>

\* A thumbnail is clicked.
SelectImageAtIndex(i) ==
    /\ app.on /\ Idle(app) /\ Len(app.images) > 1
    /\ i < Len(app.images)
    /\ app' = [Quiet(app) EXCEPT !.currentImageIndex = i]
    /\ UNCHANGED <<engine, surface>>

\* processAllImages up to its first await.
ProcessAll ==
    /\ app.on /\ Idle(app)
    /\ IF Len(app.images) = 0 \/ ~AnyEnabled(app.pipeline)
       THEN app' = Quiet(app)
       ELSE app' = BatchLoop([Quiet(app) EXCEPT
                     !.isProcessing = TRUE,
                     !.batch = [stage |-> "start", images |-> app.images,
                                pipeline |-> app.pipeline, i |-> 0,
                                processedImages |-> app.images,
                                calls |-> <<>>, results |-> <<>>,
                                before |-> <<>>]], 0)
    /\ UNCHANGED <<engine, surface>>

\* The 100 ms delay of processAllImages is over: the next image, or the end.
BatchTimer ==
    /\ app.on /\ app.batch.stage = "delay"
    /\ app' = BatchLoop(Quiet(app), app.batch.i + 1)
    /\ UNCHANGED <<engine, surface>>

\* A statement of the loop body throws when the loop goes on after the
\* delay: catch (error) logs it and finally ends the batch.
BatchThrows ==
    /\ app.on /\ app.batch.stage = "delay"
    /\ app' = BatchEnd(Quiet(app), "threw")
    /\ UNCHANGED <<engine, surface>>

\* batchExport up to its first await.
BatchExport ==
    /\ app.on /\ Idle(app) /\ Len(app.images) > 1
    /\ \E started \in {[Quiet(app) EXCEPT
                          !.isExporting = TRUE,
                          !.export = [stage |-> "start",
                                      images |-> app.images,
                                      pipeline |-> app.pipeline,
                                      i |-> 0]]} :
          app' = IF AnyEnabled(app.pipeline)
                 THEN ExportLoop(started, 0)
                 ELSE Download([started EXCEPT !.currentImageIndex = 0,
                                               !.export.stage = "delay"],
                               app.images[1].src, <<>>)
    /\ UNCHANGED <<engine, surface>>

\* The 200 ms delay between two downloads of originals is over.
ExportTimer ==
    /\ app.on /\ app.export.stage = "delay"
    /\ \E i \in {app.export.i + 1} :
          app' = IF i < Len(app.export.images)
                 THEN Download([Quiet(app) EXCEPT !.currentImageIndex = i,
                                                  !.export.i = i],
                               app.export.images[i + 1].src, <<>>)
                 ELSE ExportEnd(Quiet(app))
    /\ UNCHANGED <<engine, surface>>

\* The same in the loop of batchExport.
ExportThrows ==
    /\ app.on /\ app.export.stage = "delay"
    /\ app' = ExportEnd(Quiet(app))
    /\ UNCHANGED <<engine, surface>>

\* Save Current
SaveCurrent ==
    /\ app.on /\ Idle(app) /\ HasCurrentImage(app)
    /\ \E im \in {CurrentImage(app)} :
          app' = IF im.processedDataUrl.url # <<>>
                 THEN Download(Quiet(app), im.processedDataUrl.url,
                               im.processedDataUrl.by)
                 ELSE IF ~AnyEnabled(app.pipeline)
                 THEN Download(Quiet(app), im.src, <<>>)
                 ELSE Quiet(app)
    /\ UNCHANGED <<engine, surface>>

\* The filters the user of the batch works with.
BatchTemplates == {S_brightness}

InitBatch ==
    /\ pc = "idle"
    /\ pipeline = <<>> /\ image = "" /\ width = 0 /\ height = 0
    /\ gl = NewContext /\ processor = NoProcessor
    /\ inputTexture = NoObject /\ fbo1 = NoFBO /\ fbo2 = NoFBO
    /\ enabledFilters = <<>> /\ index = 0
    /\ currentTexture = NoObject /\ currentFBO = NoFBO /\ nextFBO = NoFBO
    /\ totalGpuTime = 0 /\ elapsed = 0
    /\ thrown = NoError /\ resolved = <<>> /\ answers = <<>>
    /\ earlier = NotRecorded
    /\ surface = NoSurface
    /\ app = [NoApp EXCEPT !.on = TRUE]

NextBatch ==
    \/ \E files \in UploadSets : StartUpload(files)
    \/ UploadDone
    \/ \E direction \in {"prev", "next"} : NavigateCarousel(direction)
    \/ \E i \in 0..(MaxImages - 1) : SelectImageAtIndex(i)
    \/ ProcessAll
    \/ BatchTimer
    \/ BatchThrows
    \/ BatchExport
    \/ ExportTimer
    \/ ExportThrows
    \/ SaveCurrent
    \/ \E filterId \in BatchTemplates :
          app.pipeline = <<>> /\ AddFilter(filterId, 1)
    \/ \E filterId \in BatchTemplates :
          UpdateParameter(NewFilterId(filterId, 1), "value", 5)
    \/ \E filterId \in BatchTemplates : ToggleFilter(NewFilterId(filterId, 1))
    \/ \E r \in Requests(app) : Call(r[1], r[2], r[3])
    \/ ImgError
    \/ \E context \in {"ok", "none"} : Construct(context, FALSE)
    \/ CreateInputTexture("ok")
    \/ CreateFbo1("ok")
    \/ CreateFbo2("ok")
    \/ SelectEnabled(1)
    \/ RenderPass("ok", 1)
    \/ Encode
    \/ Settle

\* The application with its images, its batch and its export.
SpecBatch == InitBatch /\ [][NextBatch]_vars

(***************************************************************************)
(* getFittedSize applied to the dimensions of a source image.              *)
(***************************************************************************)
FitSides == {1, 2, 3, 100, 1080, 1920, 3840, 3841, 10000}
FitBudgets == { <<1920, 1080>>, <<4, 3>> }

Fit ==
    /\ app.fit.stage = "asked"
    /\ app' = [app EXCEPT
                 !.fit = [@ EXCEPT
                            !.stage = "fitted",
                            !.out = getFittedSize(app.fit.width,
                                                  app.fit.height,
                                                  app.fit.maxWidth,
                                                  app.fit.maxHeight)]]
    /\ UNCHANGED <<engine, surface>>

InitFit ==
    /\ pc = "idle"
    /\ pipeline = <<>> /\ image = "" /\ width = 0 /\ height = 0
    /\ gl = NewContext /\ processor = NoProcessor
    /\ inputTexture = NoObject /\ fbo1 = NoFBO /\ fbo2 = NoFBO
    /\ enabledFilters = <<>> /\ index = 0
    /\ currentTexture = NoObject /\ currentFBO = NoFBO /\ nextFBO = NoFBO
    /\ totalGpuTime = 0 /\ elapsed = 0
    /\ thrown = NoError /\ resolved = <<>> /\ answers = <<>>
    /\ earlier = NotRecorded
    /\ surface = NoSurface
    /\ app \in { [NoApp EXCEPT
                    !.fit = [stage |-> "asked", width |-> w, height |-> h,
                             maxWidth |-> b[1], maxHeight |-> b[2],
                             out |-> <<0, 0>>]] :
                 w \in FitSides, h \in FitSides, b \in FitBudgets }

NextFit == Fit

SpecFit == InitFit /\ [][NextFit]_vars

(***************************************************************************)
(* What the claims read.                                                   *)
(***************************************************************************)
Ops(op) == LET Is(e) == e[1] = op IN SelectSeq(gl.log, Is)

\* The draws of the call so far: <<program, texture sampled, destination>>.
Draws == [i \in 1..Len(Ops("drawElements")) |-> Ops("drawElements")[i][2]]

Created(kind) ==
    { e[2] : e \in { gl.log[i] : i \in { j \in 1..Len(gl.log) :
                       gl.log[j][1] = "create" /\ gl.log[j][2][1] = kind } } }

AllCreated ==
    { gl.log[i][2] : i \in { j \in 1..Len(gl.log) : gl.log[j][1] = "create" } }

TimesReleased(obj) ==
    Cardinality({ i \in 1..Len(gl.released) : gl.released[i] = obj })

\* The message begins with the text.
StartsWith(msg, text) ==
    Len(msg) >= Len(text) /\ SubSeq(msg, 1, Len(text)) = text

\* The error is one of compileShader's or createProgram's diagnostics.
CompileOrLinkError(msg) ==
    \/ StartsWith(msg, "Shader compilation error: ")
    \/ StartsWith(msg, "Program linking error: ")

Ended == pc = "done" /\ Len(resolved) = 1
Succeeded == Ended /\ resolved[1].success
Failed == Ended /\ ~resolved[1].success

\* The rendering phase has been entered (the surface was cleared).
Rendering == Ops("clear") # <<>>

EnabledCount == Cardinality({ i \in DOMAIN pipeline : pipeline[i].enabled })

\* The k-th filter of the pipeline that is enabled.
KthEnabled(k) ==
    pipeline[CHOOSE i \in DOMAIN pipeline :
        /\ pipeline[i].enabled
        /\ Cardinality({ j \in 1..i : pipeline[j].enabled }) = k]

SourceOf(program) == (CHOOSE l \in gl.linked : l[1] = program)[2]

OffScreen == Created("framebuffer")

\* C1: when a shader compile or program link failure occurs during a run,
\* the run resolves with success=false and, once it has ended, every device
\* object allocated during it has been released (allocations = releases).
C1_CompileFailureBalanced ==
    (pc = "done" /\ CompileOrLinkError(thrown))
    => /\ Failed
       /\ gl.live = {}
       /\ gl.made = Len(gl.released)

\* C2: on every successful run each device object created during the run
\* (textures, framebuffers, programs, shaders, buffers, timer queries) has
\* been released exactly once when the promise resolves.
C2_ReleasedExactlyOnce ==
    Succeeded => \A obj \in AllCreated : TimesReleased(obj) = 1

\* C3: each render target is checked for completeness right after it is
\* constructed; an incomplete one fails the run before any draw, and the
\* objects created for it and before it are still released.
C3_IncompleteTargetReleased ==
    (pc = "done" /\ thrown = "Framebuffer not complete")
    => /\ Failed
       /\ Draws = <<>>
       /\ gl.log[Len(gl.log)][1] = "checkFramebufferStatus"
       /\ gl.live = {}

\* C4: whatever the number of enabled filters, a run that reaches the
\* rendering phase has allocated exactly 2 off-screen render targets, and
\* at no point of a run do more than 2 exist.
C4_TwoRenderTargets ==
    /\ Cardinality({ o \in gl.live : o[1] = "framebuffer" }) <= 2
    /\ Cardinality(Created("framebuffer")) <= 2
    /\ Rendering => Cardinality(Created("framebuffer")) = 2

C4_Witness ==
    /\ Succeeded /\ EnabledCount = 2 /\ Len(Draws) = 2
    /\ Cardinality(Created("framebuffer")) = 2

\* C5: with N >= 1 enabled filters, pass i draws to the output surface (no
\* framebuffer bound) exactly when i = N-1; every earlier pass draws to one
\* of the two off-screen render targets.
C5_OnlyLastPassOnScreen ==
    (Rendering /\ EnabledCount >= 1)
    => \A i \in 1..Len(Draws) :
          /\ (Draws[i][3] = NoObject) <=> (i = EnabledCount)
          /\ i < EnabledCount => Draws[i][3] \in OffScreen

C5_Witness ==
    /\ Succeeded /\ EnabledCount = 2 /\ Len(Draws) = 2
    /\ Draws[1][3] # NoObject /\ Draws[2][3] = NoObject

\* The texture(s) the source image was uploaded into.
Uploaded ==
    { gl.log[i][2][1] : i \in { j \in 1..Len(gl.log) :
          gl.log[j][1] = "texImage2D" /\ Len(gl.log[j][2]) = 2 } }

AttachedTo(fb) == (CHOOSE a \in gl.attachment : a[1] = fb)[2]

\* The fragment source of the k-th enabled filter.
KthSource(k) == getShaderForFilter(KthEnabled(k).id)

NotPassthrough(src) == src # "passthrough"

FloatsSet ==
    [i \in 1..Len(Ops("uniform1f")) |->
        <<Ops("uniform1f")[i][2][2], Ops("uniform1f")[i][2][3]>>]

\* The float uniforms the k-th enabled filter sets: its parameters that the
\* program declares, u_image and u_resolution aside (they take the first
\* two branches of renderFilter).
FloatsOf(k) ==
    LET ps == KthEnabled(k).parameters
        Declared(e) == e[1] \in DeclaredUniforms(KthSource(k))
                                   \ {U("image"), U("resolution")}
    IN  SelectSeq([i \in 1..Len(ps) |-> <<U(ps[i][1]), <<ps[i][2]>> >>],
                  Declared)

RECURSIVE FloatsUpTo(_)
FloatsUpTo(k) == IF k = 0 THEN <<>> ELSE FloatsUpTo(k - 1) \o FloatsOf(k)

\* The fragment sources handed to the compiler so far.
FragmentsCompiled ==
    { e[2][3] : e \in { gl.log[i] : i \in { j \in 1..Len(gl.log) :
          gl.log[j][1] = "compileShader"
          /\ gl.log[j][2][2] = "FRAGMENT_SHADER" } } }

\* C7: the passes of a run are exactly the filters with enabled = true, one
\* pass each, in their order in the pipeline; a disabled filter causes no
\* pass, no program lookup and no uniform to be set.
C7_PassesAreTheEnabledFilters ==
    EnabledCount >= 1
    => /\ Len(Draws) <= EnabledCount
       /\ Succeeded => Len(Draws) = EnabledCount
       /\ \A k \in 1..Len(Draws) : SourceOf(Draws[k][1]) = KthSource(k)
       /\ FloatsSet = FloatsUpTo(Len(Draws))
       /\ FragmentsCompiled \subseteq { KthSource(k) : k \in 1..EnabledCount }

C7_Witness ==
    /\ Succeeded /\ Len(pipeline) = 2 /\ EnabledCount = 1
    /\ ~pipeline[1].enabled /\ pipeline[1].parameters # <<>>
    /\ getShaderForFilter(pipeline[1].id) # KthSource(1)
    /\ Len(Draws) = 1

AnswerAt(ans, i) == IF i <= Len(ans) THEN ans[i] ELSE "ok"

\* What a call leaves behind, the clock readings aside: the device
\* operations it issued, the objects it left alive and the result.
Observation(g, res) ==
    [log |-> g.log, live |-> g.live, released |-> g.released,
     success |-> res.success, memoryUsage |-> res.memoryUsage,
     imageDataUrl |-> IF res.success THEN res.imageDataUrl ELSE <<>>,
     error |-> IF res.success THEN NoError ELSE res.error]

Thrown(r) == Observation(r.gl, Failure(r.error))

\* The run processImageWithPipeline(img, [], w, h) makes when the loader and
\* the device answer ans: img.onerror, or img.onload with the empty pipeline
\* (the enabledFilters.length === 0 branch).
RunEmpty(img, w, h, ans) ==
    IF AnswerAt(ans, 1) = "error"
    THEN Observation(NewContext, Failure("Failed to load image"))
    ELSE
    Val({ IF c.error # NoError THEN Thrown(c) ELSE
    Val({ IF t.error # NoError THEN Thrown(t) ELSE
    Val({ IF a.error # NoError THEN Thrown(a) ELSE
    Val({ IF b.error # NoError THEN Thrown(b) ELSE
    Val({ IF r.error # NoError THEN Thrown(r) ELSE
          Observation(
              destroy(Emit(r.gl, "toDataURL", <<>>), r.processor).gl,
              [success |-> TRUE, memoryUsage |-> getMemoryUsage(w, h, 0 + 2),
               imageDataUrl |-> getCanvasDataURL(r.gl, w, h)])
        : r \in {renderFilter(clear(b.gl), b.processor, t.value, "passthrough",
                    << <<U("image"), "object", t.value>> >>, NoObject,
                    AnswerAt(ans, 7), 0)} })
        : b \in {createFramebuffer(a.gl, a.processor, w, h, AnswerAt(ans, 6))} })
        : a \in {createFramebuffer(t.gl, t.processor, w, h, AnswerAt(ans, 5))} })
        : t \in {createTexture(c.gl, c.processor, img, AnswerAt(ans, 4))} })
        : c \in {Constructor(AnswerAt(ans, 2), AnswerAt(ans, 3) = "ext")} })

\* C9: a run whose pipeline holds only disabled filters (whatever their
\* kinds, parameters and number) issues the same device operations and
\* gives the same result, clock readings aside, as the run of the empty
\* pipeline on the same image and size under the same answers of the
\* device.
C9_AllDisabledIsEmpty ==
    (Ended /\ EnabledCount = 0)
    => Observation(gl, resolved[1]) = RunEmpty(image, width, height, answers)

C9_Witness ==
    /\ Succeeded /\ Len(pipeline) = 2 /\ EnabledCount = 0
    /\ pipeline[1].parameters # <<>> /\ pipeline[1].id # pipeline[2].id
    /\ Observation(gl, resolved[1]) = RunEmpty(image, width, height, answers)

\* C10: a filter id whose base kind is not one of the ten registered shader
\* keys resolves to the passthrough fragment source, so that its pass is a
\* copy and no run fails because of the kind: every fragment source handed
\* to the compiler is a registered one.
C10_UnknownKindIsPassthrough ==
    /\ \A k \in 1..Len(enabledFilters) :
          (k <= index + 1 /\ SplitFirst(enabledFilters[k].id) \notin ShaderKeys)
          => getShaderForFilter(enabledFilters[k].id) = "passthrough"
    /\ FragmentsCompiled \subseteq FragmentSources

\* The fragment source registered under a key of shaders.
RegisteredSource(K) == (CHOOSE e \in shaders : e[1] = K)[2]

\* Suffixes of a filter id: none, digits, with dashes of their own, a
\* registry key.
Suffixes ==
    { <<>>, <<"1">>, <<"2">>, <<"1","7","0","0">>, <<"-">>, <<"a","-","b">>,
      <<"-","-","9">>, S_passthrough, S_constructor }

\* Values of Date.now() at the time a filter is added.
Timestamps == {0, 7, 42, 1700, 1730764800}

\* C11: for every registered kind K and every suffix S the id 'K-S' resolves
\* to the fragment source registered under K; the id addFilterToPipeline
\* makes from a template resolves to the source of the template's kind,
\* which is not passthrough (ids are resolved the same way in every state,
\* so this is looked at between calls); and every pass drawn for a filter
\* 'K-S' runs the program of K's source.
C11_SuffixResolvesToKind ==
    /\ pc = "idle"
       => /\ \A K \in ShaderKeys, S \in Suffixes :
                getShaderForFilter(K \o <<"-">> \o S) = RegisteredSource(K)
          /\ \A t \in availableFilters, now \in Timestamps :
                /\ t \in ShaderKeys
                /\ getShaderForFilter(NewFilterId(t, now)) = RegisteredSource(t)
                /\ getShaderForFilter(NewFilterId(t, now)) # "passthrough"
    /\ \A k \in 1..Len(Draws) :
          k <= EnabledCount
          => \A id \in {KthEnabled(k).id}, src \in {SourceOf(Draws[k][1])} :
                \A K \in ShaderKeys, S \in Suffixes :
                   id = K \o <<"-">> \o S => src = RegisteredSource(K)

C11_Witness ==
    /\ Succeeded /\ Len(Draws) = 2
    /\ KthEnabled(1).id = NewFilterId(S_blur, 2)
    /\ KthEnabled(2).id = NewFilterId(S_brightness, 1)
    /\ SourceOf(Draws[1][1]) = "blur" /\ SourceOf(Draws[2][1]) = "brightness"

\* The position in the log of the k-th operation op.
IndexOfKth(op, k) ==
    CHOOSE i \in 1..Len(gl.log) :
        /\ gl.log[i][1] = op
        /\ Cardinality({ j \in 1..i : gl.log[j][1] = op }) = k

\* The device operations of the k-th pass, from useProgram to the draw.
PassOps(k) ==
    { gl.log[i] : i \in IndexOfKth("useProgram", k)..IndexOfKth("drawElements", k) }

\* C12: on every pass of a non-empty pipeline, whatever the names of the
\* filter's parameters: u_image is set to texture unit 0 and the pass's
\* input texture is bound there; u_resolution, where declared, is set to
\* (width, height) and to nothing else; every parameter X with value v whose
\* u_X the program declares is set as the float u_X = v.
C12_UniformNaming ==
    EnabledCount >= 1
    => \A k \in 1..Len(Draws) :
          LET prog == Draws[k][1]
              decl == DeclaredUniforms(SourceOf(prog))
              ps == KthEnabled(k).parameters
          IN  /\ <<"uniform1i", <<prog, U("image"), <<0>> >> >> \in PassOps(k)
              /\ <<"bindTexture", <<Draws[k][2]>> >> \in PassOps(k)
              /\ k = 1 => Draws[k][2] \in Uploaded
              /\ k > 1 => Draws[k][2] = AttachedTo(Draws[k - 1][3])
              /\ U("resolution") \in decl
                 => \A e \in PassOps(k) :
                       e[1] = "uniform2f"
                       => e[2] = <<prog, U("resolution"), <<width, height>> >>
              /\ U("resolution") \in decl
                 => \E e \in PassOps(k) : e[1] = "uniform2f"
              /\ \A i \in 1..Len(ps) :
                    U(ps[i][1]) \in decl
                    => <<"uniform1f", <<prog, U(ps[i][1]), <<ps[i][2]>> >> >>
                          \in PassOps(k)

\* How often a fragment source was handed to the compiler.
FragmentCompiles(src) ==
    Cardinality({ j \in 1..Len(gl.log) :
        /\ gl.log[j][1] = "compileShader"
        /\ gl.log[j][2][2] = "FRAGMENT_SHADER"
        /\ gl.log[j][2][3] = src })

\* C13: within one WebGLProcessor a fragment source is compiled and linked
\* at most once: passes of the same source draw with the same program
\* object, the cache holds one entry per source, and a pipeline that holds
\* a kind twice compiles it once.
C13_CompiledOncePerSource ==
    /\ \A src \in FragmentsCompiled : FragmentCompiles(src) = 1
    /\ Cardinality(Created("program")) <= Cardinality(FragmentsCompiled)
    /\ \A i, j \in 1..Len(Draws) :
          SourceOf(Draws[i][1]) = SourceOf(Draws[j][1])
          => Draws[i][1] = Draws[j][1]
    /\ \A i, j \in 1..Len(processor.programs) :
          processor.programs[i][1] = processor.programs[j][1] => i = j

C13_Witness ==
    /\ Succeeded /\ Len(Draws) = 2
    /\ SourceOf(Draws[1][1]) = "brightness"
    /\ SourceOf(Draws[2][1]) = "brightness"
    /\ Draws[1][1] = Draws[2][1]
    /\ FragmentCompiles("brightness") = 1
    /\ Cardinality(Created("program")) = 1

\* The fragment source the call asks getProgram for next.
SourceAsked ==
    IF Len(enabledFilters) = 0 THEN "passthrough"
    ELSE getShaderForFilter(enabledFilters[index + 1].id)

\* The step is a getProgram call in which the device fails a compile or the
\* link.
CompileOrLinkFails ==
    /\ pc = "render" /\ Len(answers') = Len(answers) + 1
    /\ answers'[Len(answers')] \in {"vsfail", "fsfail", "linkfail"}

\* The error such a step must raise: the diagnostic of the stage that
\* failed, with the device's info log.
DiagnosticOf(o, src) ==
    CASE o = "vsfail" ->
           "Shader compilation error: "
               \o getShaderInfoLog("VERTEX_SHADER", "basicVertexShader")
      [] o = "fsfail" ->
           "Shader compilation error: "
               \o getShaderInfoLog("FRAGMENT_SHADER", src)
      [] o = "linkfail" ->
           "Program linking error: " \o getProgramInfoLog(src)

\* C14: when the compile of either stage or the link fails inside
\* getProgram, the error raised (and reported by the run) carries the
\* device's info log, and the failed call leaves the program cache as it
\* was: no entry for the fragment source asked for.
C14_FailedCompileLeavesCache ==
    [][ CompileOrLinkFails
        => /\ thrown' = DiagnosticOf(answers'[Len(answers')], SourceAsked)
           /\ resolved' = <<Failure(thrown')>>
           /\ processor'.programs = processor.programs
           /\ ~HasProgram(processor', SourceAsked) ]_vars

C14_Witness ==
    /\ Failed /\ answers[Len(answers)] = "linkfail"
    /\ thrown = "Program linking error: " \o getProgramInfoLog("brightness")
    /\ resolved[1].error = thrown
    /\ Len(processor.programs) = 1
    /\ processor.programs[1][1] = "blur"

\* C15: the program cache is kept from one run to the next: a fragment
\* source that an earlier run compiled is not compiled again, and once a
\* run has its processor the cache holds an entry for every source compiled
\* before.
C15_CacheKeptAcrossRuns ==
    /\ \A src \in earlier.compiled : FragmentCompiles(src) = 0
    /\ pc \in {"texture", "fbo1", "fbo2", "filter", "render", "encode"}
       => \A src \in earlier.compiled : HasProgram(processor, src)

\* C16: every result the promise is resolved with has imageDataUrl present
\* exactly when success is true and error present exactly when success is
\* false.
C16_ResultShape ==
    \A i \in 1..Len(resolved) :
        /\ ("imageDataUrl" \in DOMAIN resolved[i]) <=> resolved[i].success
        /\ ("error" \in DOMAIN resolved[i]) <=> ~resolved[i].success
        /\ ~resolved[i].success => resolved[i].error # NoError

C16_Witness ==
    /\ Failed /\ thrown = "Framebuffer not complete"
    /\ resolved[1].error = thrown
    /\ "imageDataUrl" \notin DOMAIN resolved[1]

\* The phase of the run: Idle until the image has loaded, Uploading while
\* the image is uploaded and the render targets are made, Rendering during
\* the passes, Flushing once the last pass has drawn and finished, then
\* Encoded or Failed.
Phase ==
    IF resolved # <<>>
    THEN (IF resolved[1].success THEN "Encoded" ELSE "Failed")
    ELSE CASE pc \in {"idle", "loading"} -> "Idle"
           [] pc \in {"texture", "fbo1", "fbo2", "filter"} -> "Uploading"
           [] pc = "render" -> "Rendering"
           [] OTHER -> "Flushing"

PhaseOrder ==
    { <<"Idle", "Idle">>, <<"Idle", "Uploading">>,
      <<"Uploading", "Uploading">>, <<"Uploading", "Rendering">>,
      <<"Rendering", "Rendering">>, <<"Rendering", "Flushing">>,
      <<"Flushing", "Encoded">>,
      <<"Idle", "Failed">>, <<"Uploading", "Failed">>,
      <<"Rendering", "Failed">>,
      <<"Encoded", "Idle">>, <<"Failed", "Idle">> }

ReadBacks == Ops("toDataURL")

\* C17: a run moves through its phases only in the order Idle, Uploading,
\* Rendering (one pass after the other), Flushing, then exactly one of
\* Encoded or Failed; the step that fails and every step after it issue no
\* draw and no read-back, a failed run is never Encoded and its result
\* holds no image.
C17_PhaseOrder ==
    [][ /\ <<Phase, Phase'>> \in PhaseOrder
        /\ Len(resolved') <= 1
        /\ (Phase = "Rendering" /\ Phase' \in {"Rendering", "Flushing"})
           => /\ Len(Draws') = Len(Draws) + 1
              /\ Len(enabledFilters) > 0 => index' = index + 1
              /\ (Phase' = "Flushing") <=> (Len(Draws') = Len(enabledFilters)
                                             \/ Len(enabledFilters) = 0)
        /\ Phase' = "Failed"
           => /\ Draws' = Draws /\ ReadBacks' = <<>>
              /\ "imageDataUrl" \notin DOMAIN resolved'[1]
        /\ Phase = "Failed" => (pc' = "idle" /\ gl' = NewContext)
        /\ Phase' = "Encoded" => Len(ReadBacks') = 1 ]_vars

C17_Witness ==
    /\ Failed /\ Phase = "Failed" /\ EnabledCount = 2 /\ Len(Draws) = 1
    /\ ReadBacks = <<>>

\* The positions in the log of the operations op.
Positions(op) == { i \in 1..Len(gl.log) : gl.log[i][1] = op }

\* The positions of the deletes that release the run's resources (the
\* shaders are deleted as soon as their program is linked).
Releases ==
    { i \in Positions("delete") : gl.log[i][2][1] # "shader" }

\* C18: in every successful run the surface is read back once, after a
\* device flush (gl.finish) that follows the last draw, with no draw
\* between that flush and the read-back, and before any of the run's
\* resources is released.
C18_FlushBeforeReadBack ==
    /\ Succeeded => Positions("toDataURL") # {}
    /\ \A t \in Positions("toDataURL") :
        /\ Positions("toDataURL") = {t}
        /\ Positions("drawElements") # {}
        /\ \A d \in Positions("drawElements") : d < t
        /\ \E f \in Positions("finish") :
              /\ f < t
              /\ \A d \in Positions("drawElements") : d < f
        /\ \A r \in Releases : t < r

C18_Witness ==
    /\ Succeeded /\ Len(Draws) = 2
    /\ Positions("toDataURL") # {} /\ Releases # {}
    /\ Cardinality(Positions("finish")) = 2

\* C19: calls are serialized: the device operations of a run are issued
\* with no other run's in between, and no run allocates a device object
\* while objects of a run that ended before, successfully or not, are
\* still unreleased.
C19_RunsSerialized ==
    earlier.leaked => gl.made = 0

\* C20: when the image cannot be loaded the run resolves with success =
\* false and no device context, buffer, texture, framebuffer or program was
\* ever created for it: the device saw no operation at all.
C20_LoadFailureAllocatesNothing ==
    (pc = "done" /\ answers = <<"error">>)
    => /\ Failed
       /\ resolved[1].error = "Failed to load image"
       /\ gl = NewContext
       /\ processor = NoProcessor

C20_Witness ==
    /\ pc = "done" /\ answers = <<"error">> /\ Failed
    /\ gl.log = <<>> /\ gl.made = 0
    /\ Len(pipeline) = 2 /\ EnabledCount = 2

\* The answers of the device on which a call of the handler throws.
FailureAnswers ==
    {"none", "null", "texnull", "fbnull", "incomplete", "vsnull", "vsfail",
     "fsnull", "fsfail", "prognull", "linkfail"}

\* The message of the error thrown on an answer.
MessageOf(o, src) ==
    CASE o = "none" -> "WebGL not supported"
      [] o = "null" -> "Failed to create texture"
      [] o = "texnull" -> "Failed to create framebuffer texture"
      [] o = "fbnull" -> "Failed to create framebuffer"
      [] o = "incomplete" -> "Framebuffer not complete"
      [] o \in {"vsnull", "fsnull"} -> "Failed to create shader"
      [] o = "prognull" -> "Failed to create program"
      [] OTHER -> DiagnosticOf(o, src)

\* The passes drawn when the call at hand began: none outside the loop.
PassesDone == IF Len(enabledFilters) = 0 THEN 0 ELSE index

\* C21: an error raised during a run (no context, shader compile, program
\* link, framebuffer incomplete, a create call returning null) aborts the
\* run where it is raised: the failing answer is the last the device gave,
\* nothing was attempted twice, no pass was drawn after it, and the promise
\* is resolved once, with success = false and that error's message.
C21_ErrorAbortsRun ==
    /\ (\E i \in 1..Len(answers) : answers[i] \in FailureAnswers)
       => thrown # NoError
    /\ thrown # NoError
       => /\ pc = "done"
          /\ resolved = <<Failure(thrown)>>
          /\ answers[Len(answers)] \in FailureAnswers
          /\ \A i \in 1..(Len(answers) - 1) : answers[i] \notin FailureAnswers
          /\ thrown = MessageOf(answers[Len(answers)], SourceAsked)
          /\ Len(Draws) = PassesDone
          /\ ReadBacks = <<>>

C21_Witness ==
    /\ Failed /\ EnabledCount = 2 /\ Len(Draws) = 1
    /\ answers[Len(answers)] = "fsfail"
    /\ resolved[1].error
         = "Shader compilation error: "
             \o getShaderInfoLog("FRAGMENT_SHADER", "blur")

\* C22: on every successful run with N enabled filters memoryUsage is
\* width * height * 4 * (N + 2) / (1024 * 1024), whatever the disabled
\* filters, the kinds and the parameters of the pipeline.
C22_MemoryEstimate ==
    Succeeded
    => /\ resolved[1].memoryUsage.num = width * height * 4 * (EnabledCount + 2)
       /\ resolved[1].memoryUsage.den = 1024 * 1024

C22_Witness ==
    /\ Succeeded /\ width = 100 /\ height = 100
    /\ Len(pipeline) = 2 /\ EnabledCount = 1
    /\ resolved[1].memoryUsage = Quot(120000, 1048576)

\* C23: gpuTime is the sum of the times measured around the passes: every
\* pass (the N of the enabled filters, or the one identity pass) adds to
\* totalGpuTime exactly what the clock advanced during it and no other step
\* adds to it; totalTime is what the clock advanced during the whole run;
\* so a successful run reports 0 <= gpuTime <= totalTime.
C23_TimesMeasured ==
    [][ /\ pc' = "loading" => (totalGpuTime' = 0 /\ elapsed' = 0)
        /\ (pc \notin {"idle", "done"})
           => /\ elapsed' >= elapsed
              /\ totalGpuTime' - totalGpuTime
                   = IF Len(Draws') = Len(Draws) + 1
                     THEN elapsed' - elapsed ELSE 0
        /\ (pc = "encode" /\ pc' = "done")
           => /\ Len(Draws) = (IF EnabledCount = 0 THEN 1 ELSE EnabledCount)
              /\ resolved'[1].gpuTime = totalGpuTime
              /\ resolved'[1].totalTime = elapsed
              /\ 0 <= resolved'[1].gpuTime
              /\ resolved'[1].gpuTime <= resolved'[1].totalTime ]_vars

C23_Witness ==
    /\ Succeeded /\ EnabledCount = 2 /\ Len(Draws) = 2
    /\ resolved[1].gpuTime = 2 /\ resolved[1].totalTime = 3

\* The longest the clock advances between two readings.
MaxTick == CHOOSE t \in Ticks : \A u \in Ticks : u <= t

\* C24: a run after other runs starts from nothing of theirs: when its
\* image starts loading both time accumulators are 0 and there is neither
\* device object nor processor; every texture it samples, every program it
\* draws with and every render target it draws to was created in this run;
\* and the times it reports are bounded by what its own passes can take.
C24_RunsIndependent ==
    earlier.on
    => /\ pc = "loading"
          => /\ totalGpuTime = 0 /\ elapsed = 0
             /\ gl = NewContext /\ processor = NoProcessor
             /\ inputTexture = NoObject /\ currentTexture = NoObject
       /\ \A i \in 1..Len(Draws) :
             /\ Draws[i][1] \in Created("program")
             /\ Draws[i][2] \in Created("texture")
             /\ Draws[i][3] \in Created("framebuffer") \cup {NoObject}
       /\ Succeeded
          => /\ resolved[1].gpuTime <= Len(Draws) * MaxTick
             /\ resolved[1].totalTime <= (Len(Draws) + 1) * MaxTick

C24_Witness ==
    /\ earlier.on /\ "brightness" \in earlier.compiled
    /\ Succeeded /\ Len(Draws) = 1 /\ SourceOf(Draws[1][1]) = "brightness"
    /\ resolved[1].gpuTime = 1 /\ resolved[1].totalTime = 1
    /\ Draws[1][2] \in Created("texture")

\* The enabled filters of the pipeline are all of registered kinds.
RegisteredKinds ==
    \A i \in DOMAIN pipeline :
        pipeline[i].enabled => SplitFirst(pipeline[i].id) \in ShaderKeys

\* The image loaded and the device failed nothing in the run.
NothingFailed ==
    \A i \in 1..Len(answers) : answers[i] \notin FailureAnswers \cup {"error"}

\* C25: a run of a pipeline of registered kinds in which the image loads,
\* the context is there and the device fails nothing ends with success =
\* true, an image encoded from a surface of the caller's width x height,
\* and gpuTime > 0.
C25_SuccessScenario ==
    (Ended /\ RegisteredKinds /\ NothingFailed)
    => /\ Succeeded
       /\ resolved[1].imageDataUrl[2] = width
       /\ resolved[1].imageDataUrl[3] = height
       /\ resolved[1].gpuTime > 0

(***************************************************************************)
(* ReglSurface                                                             *)
(***************************************************************************)
\* The run of effect i ends in this step.
EndsRun(i) ==
    /\ i \in DOMAIN surface.effects
    /\ surface.effects[i].stage \in {"loading", "calling"}
    /\ surface'.effects[i].stage = "done"

\* C26: when the run of an effect finds that no WebGL context can be
\* obtained, the component falls back to Canvas 2D: at the end of that run
\* its canvas shows the unprocessed source image of that effect.
C26_FallsBackTo2D ==
    [][\A i \in 1..MaxEffects :
          (EndsRun(i) /\ surface'.effects[i].found = "none")
          => surface'.canvas = <<"source", i>>]_vars

\* C27: a processor created by a run of the effect is destroyed by that
\* effect's cleanup, whichever of the image load and the cleanup comes
\* first: once the cleanup has run and the load has been handled, no
\* processor of the effect is left alive.
C27_CleanupDestroys ==
    \A i \in DOMAIN surface.effects :
        (surface.effects[i].cleaned /\ surface.effects[i].stage # "loading")
        => surface.effects[i].processor # "live"

(***************************************************************************)
(* The two render targets                                                  *)
(***************************************************************************)
\* C28: the swap is index toggling over the fixed pair: a pass that is not
\* the last (the i-th, from 0) draws into fbo1 when i is even and into
\* fbo2 when i is odd; from the start of rendering (currentFBO, nextFBO)
\* is one of the two orders of the two distinct targets; and no pass
\* samples the texture attached to the framebuffer it draws into.
C28_TargetsToggleByIndex ==
    /\ Rendering =>
          /\ fbo1.framebuffer # fbo2.framebuffer
          /\ fbo1.texture # fbo2.texture
          /\ <<currentFBO, nextFBO>> \in {<<fbo1, fbo2>>, <<fbo2, fbo1>>}
    /\ \A k \in DOMAIN Draws :
          /\ k < Len(enabledFilters) =>
                Draws[k][3] = IF (k - 1) % 2 = 0 THEN fbo1.framebuffer
                              ELSE fbo2.framebuffer
          /\ Draws[k][3] # NoObject => Draws[k][2] # AttachedTo(Draws[k][3])

\* A run of four passes has drawn into fbo1, fbo2 and fbo1 again.
C28_Witness ==
    /\ Len(enabledFilters) = 4 /\ Len(Draws) >= 3
    /\ Draws[1][3] = fbo1.framebuffer
    /\ Draws[2][3] = fbo2.framebuffer
    /\ Draws[3][3] = fbo1.framebuffer
    /\ Draws[3][2] = fbo2.texture

(***************************************************************************)
(* Editing the pipeline                                                    *)
(***************************************************************************)
\* The filters of p kept when those of the id are taken out, in p's order:
\* the j-th is the kept one with j - 1 kept ones before it.
KeptOf(p, filterId) == { i \in DOMAIN p : p[i].id # filterId }
KeptAt(p, filterId, j) ==
    CHOOSE i \in KeptOf(p, filterId) :
        Cardinality({ m \in KeptOf(p, filterId) : m < i }) = j - 1

\* Filter f is g but for the one field.
SameBut(f, g, field) ==
    /\ DOMAIN f = DOMAIN g
    /\ \A k \in DOMAIN f \ {field} : f[k] = g[k]

OtherEntries(entries, paramName) ==
    LET Other(e) == e[1] # paramName IN SelectSeq(entries, Other)

\* C29: toggleFilter, updateFilterParameter and removeFilterFromPipeline
\* keep the remaining filters in their order and leave every filter of
\* another id as it was; toggleFilter changes nothing but enabled, and
\* updateFilterParameter nothing but the named parameter, of the filter
\* addressed; addFilterToPipeline puts the new filter last and leaves the
\* others as they were.
C29_EditsAreLocal ==
    [][LET before == app.pipeline
           after == app'.pipeline
       IN  \A filterId \in FilterIds :
           /\ ToggleFilter(filterId) =>
                /\ Len(after) = Len(before)
                /\ \A i \in DOMAIN before :
                     IF before[i].id = filterId
                     THEN SameBut(after[i], before[i], "enabled")
                     ELSE after[i] = before[i]
           /\ \A paramName \in ParamNames, value \in ParamValues :
                UpdateParameter(filterId, paramName, value) =>
                  /\ Len(after) = Len(before)
                  /\ \A i \in DOMAIN before :
                       IF before[i].id = filterId
                       THEN /\ SameBut(after[i], before[i], "parameters")
                            /\ OtherEntries(after[i].parameters, paramName)
                                 = OtherEntries(before[i].parameters,
                                                paramName)
                       ELSE after[i] = before[i]
           /\ RemoveFilter(filterId) =>
                /\ Len(after) = Cardinality(KeptOf(before, filterId))
                /\ \A j \in DOMAIN after :
                     after[j] = before[KeptAt(before, filterId, j)]
           /\ \A t \in AddRequests, now \in Clock :
                AddFilter(t, now) =>
                  /\ \A i \in DOMAIN before : after[i] = before[i]
                  /\ t \in availableFilters =>
                       /\ Len(after) = Len(before) + 1
                       /\ after[Len(after)].id = NewFilterId(t, now)]_vars

\* A pipeline of two filters of different ids: the first has been toggled
\* off, the second has had one of its two parameters changed.
C29_Witness ==
    /\ Len(app.pipeline) = 2
    /\ app.pipeline[1].id = NewFilterId(S_brightness, 1)
    /\ ~app.pipeline[1].enabled
    /\ app.pipeline[1].parameters = << <<"value", 0>> >>
    /\ app.pipeline[2].id = NewFilterId(S_bilateral, 2)
    /\ app.pipeline[2].enabled
    /\ app.pipeline[2].parameters = << <<"spatial", 10>>, <<"color", 5>> >>

(***************************************************************************)
(* The promise                                                             *)
(***************************************************************************)
\* C30: the promise of a call is resolved once and never rejected: it is
\* never resolved a second time, an error thrown in the handler is caught
\* and becomes the failure result, a handler that has ended has resolved,
\* and once the image's load or error event has fired the promise comes to
\* be resolved with a ProcessingResult.
C30_ResolvesOnce ==
    /\ [](Len(resolved) <= 1)
    /\ [](thrown # NoError => resolved = <<Failure(thrown)>>)
    /\ [](pc = "done" => /\ Len(resolved) = 1
                         /\ {"success", "gpuTime", "totalTime",
                             "memoryUsage"} \subseteq DOMAIN resolved[1])
    /\ (answers # <<>>) ~> (Len(resolved) = 1)

\* The load event has fired and the handler is in its third pass, the
\* promise still pending.
C30_Witness ==
    /\ answers # <<>> /\ answers[1] = "load"
    /\ pc = "render" /\ index = 2 /\ Len(enabledFilters) = 4
    /\ resolved = <<>>

(***************************************************************************)
(* The metrics of a failed run                                             *)
(***************************************************************************)
\* C38: a failed run reports gpuTime 0, totalTime 0 and memoryUsage 0,
\* however many passes had been drawn and timed before the failure.
C38_FailureReportsZero ==
    Failed => /\ resolved[1].gpuTime = 0
              /\ resolved[1].totalTime = 0
              /\ resolved[1].memoryUsage.num = 0

\* A run failed in its second pass, after a first pass that took time.
C38_Witness ==
    /\ Failed /\ Len(Draws) = 1
    /\ totalGpuTime > 0 /\ elapsed > 0

(***************************************************************************)
(* The result a surface shows                                              *)
(***************************************************************************)
\* C32: a result computed for older props is never drawn after the result
\* for newer props: no step replaces the processed image of effect j on
\* the canvas by the processed image of an effect that ran before j.
C32_NoStaleResult ==
    [][(surface.canvas[1] = "processed" /\ surface'.canvas[1] = "processed")
       => surface'.canvas[2] >= surface.canvas[2]]_vars

(***************************************************************************)
(* The ids of the pipeline                                                 *)
(***************************************************************************)
\* C34: whatever the edits made, two adds of one template at one reading
\* of the clock included, the ids of the filters in the pipeline are
\* pairwise distinct.
C34_IdsDistinct ==
    \A i, j \in DOMAIN app.pipeline :
        i # j => app.pipeline[i].id # app.pipeline[j].id

(***************************************************************************)
(* The size handed to the engine                                           *)
(***************************************************************************)
\* C37: for a source image of positive integer width and height the
\* fitted size has 1 <= width <= maxWidth and 1 <= height <= maxHeight.
C37_FittedWithinBudget ==
    app.fit.stage = "fitted" =>
        /\ 1 <= app.fit.out[1] /\ app.fit.out[1] <= app.fit.maxWidth
        /\ 1 <= app.fit.out[2] /\ app.fit.out[2] <= app.fit.maxHeight

(***************************************************************************)
(* The batch                                                               *)
(***************************************************************************)
\* <<0, 1, ..., n - 1>>
Indices(n) == [k \in 1..n |-> k - 1]

\* C31: processAllImages hands every image it started with to the engine
\* once, in index order and one at a time: the run of an image is asked
\* for when the results of all images before it are in, a failed image is
\* followed by the next one, and a batch that completes has run them all.
\* With no image or no enabled filter no batch is under way.
C31_BatchOnceInOrder ==
    /\ app.isProcessing <=> app.batch.stage # "none"
    /\ app.batch.stage # "none" =>
          /\ Len(app.batch.images) > 0 /\ AnyEnabled(app.batch.pipeline)
          /\ app.batch.calls = Indices(Len(app.batch.calls))
          /\ Len(app.batch.calls) <= Len(app.batch.images)
          /\ app.batch.stage = "calling" =>
                Len(app.batch.results) = Len(app.batch.calls) - 1
          /\ app.batch.stage = "delay" =>
                Len(app.batch.results) = Len(app.batch.calls)
          /\ pc # "idle" =>
                /\ app.batch.stage = "calling"
                /\ image = app.batch.images[Len(app.batch.calls)].src
    /\ app.lastBatch.stage = "completed" =>
          /\ app.lastBatch.calls = Indices(app.lastBatch.n)
          /\ Len(app.lastBatch.results) = app.lastBatch.n

\* A batch of two images has completed: the first failed, the second was
\* processed after it.
C31_Witness ==
    /\ app.lastBatch.stage = "completed"
    /\ app.lastBatch.n = 2
    /\ app.lastBatch.results = <<FALSE, TRUE>>

(***************************************************************************)
(* What is exported                                                        *)
(***************************************************************************)
\* C33: an image exported by batchExport or Save Current is the result of
\* the pipeline as it is configured at that moment: the original when no
\* filter is enabled, else a result made with exactly this pipeline.
C33_ExportsCurrentPipeline ==
    \A k \in DOMAIN app.downloads :
        IF AnyEnabled(app.pipeline)
        THEN app.downloads[k].by = app.pipeline
        ELSE app.downloads[k].by = <<>>

(***************************************************************************)
(* The images and the index of the one shown                               *)
(***************************************************************************)
Names(images) == [k \in DOMAIN images |-> images[k].name]

\* C35: whenever there are images, currentImageIndex is an index of one of
\* them; and the list a completed batch writes back takes the place of the
\* list the batch worked on, never of another set uploaded meanwhile.
C35_IndexAndImagesConsistent ==
    /\ Len(app.images) > 0 => HasCurrentImage(app)
    /\ app.lastBatch.stage = "completed" =>
          Names(app.lastBatch.before) = Names(app.images)

(***************************************************************************)
(* The two busy flags                                                      *)
(***************************************************************************)
\* C36: isProcessing is true exactly while a batch is under way, whichever
\* way the batch ends (its last image, or an exception in the loop), and
\* isExporting exactly while an export is under way; the two are never
\* true together.
C36_BusyFlags ==
    /\ app.isProcessing = (app.batch.stage # "none")
    /\ app.isExporting = (app.export.stage # "none")
    /\ ~(app.isProcessing /\ app.isExporting)
    /\ app.lastBatch.stage # "none" => ~app.isProcessing

\* A batch has just ended by an exception after its first image.
C36_Witness ==
    /\ app.lastBatch.stage = "threw"
    /\ Len(app.lastBatch.results) = 1
    /\ ~app.isProcessing /\ app.batch.stage = "none"

=============================================================================
